---- MODULE Spec2Model ----
(***************************************************************************)
(* Standalone Kamui VRF server (src/standalone-vrf-server.js):             *)
(* the polling loop of StandaloneVRFServer, its in-memory map of processed *)
(* requests, its statistics and the fulfillment pipeline, run against a    *)
(* ledger of program accounts, a wall clock and a proof CLI that may fail. *)
(***************************************************************************)
EXTENDS Integers, Sequences, FiniteSets, TLC

VARIABLES
    ledger,             \* on-chain accounts of the VRF program: address -> account data
    now,                \* Date.now(), in milliseconds
    pc,                 \* where the server process is
    isRunning,          \* this.isRunning
    processedRequests,  \* this.processedRequests: a Map, address -> processing record
    stats,              \* this.stats
    accounts,           \* monitorAndProcess: the array returned by getPendingRequestAccounts
    idx,                \* monitorAndProcess: position of the for loop in accounts (1-based)
    proofResult,        \* processRequestAccount: the result of cli.generateProof
    isValid,            \* processRequestAccount: the result of cli.verifyProof
    procSends,          \* history: sendRawTransaction calls made by the current processRequestAccount call
    sent,               \* history: sendRawTransaction calls made for the request at Tracked, over all processes
    sentTs,             \* history: timestamp of the processing record under which the last of them was made
    sentHere,           \* history: the current process has made one of them
    restarts,           \* history: number of server processes constructed after the first
    instruction,        \* submitFulfillment: the instruction returned by createFulfillmentInstruction
    txn,                \* submitFulfillment: the blockhash signed with and those given to confirmTransaction
    slot,               \* the ledger's latest block, as getLatestBlockhash sees it
    vrfPublicKey,       \* this.cli.vrfKeypair.publicKey: a hex string
    peer,               \* a second oracle process polling the same program: its place, map, queue and sends
    env,                \* process.env.POLLING_INTERVAL as parseInt reads it: a sequence of characters
    demo,               \* the VRFDemo component of the UI: its state, its abort ref, its requests, its clock
    monitor,            \* the VRFEventMonitor of the integration test and the listeners of its connection
    args,               \* main: process.argv.slice(2), the set of options given
    exitCode,           \* the exit code of the process, "running" while it runs
    initSteps           \* history: the steps of initialize that have succeeded in this process

vars == <<ledger, now, pc, isRunning, processedRequests, stats, accounts, idx,
          proofResult, isValid, procSends, sent, sentTs, sentHere, restarts,
          instruction, txn, vrfPublicKey, slot, peer, env, demo, monitor, args, exitCode, initSteps>>

-----------------------------------------------------------------------------
(* Bounds of the model *)

\* the requests made in the UI demo
MaxDemoRequests == 2
\* the steps of the clock of the UI demo
MaxDemoTicks == 5

\* the listeners a connection is followed up to
MaxListeners == 3

\* the blocks the ledger produces while the server is watched
MaxSlot == 3

\* the clock advances in steps of WINDOW \div TicksPerWindow
TicksPerWindow == 2
\* the clock stops advancing after MaxTicks steps
MaxTicks == 3
\* each statistics counter is followed up to MaxCount
MaxCount == 2
\* sendRawTransaction calls for the followed request are bounded by MaxSends
MaxSends == 2
\* server processes started after the first one
MaxRestarts == 1
\* proofs of up to MaxProofBytes bytes are encoded
MaxProofBytes == 2
\* public keys of up to MaxKeyBytes bytes are encoded
MaxKeyBytes == 1

-----------------------------------------------------------------------------
(* Program constants *)

\* initialize: this.cli.initialize(), this.loadOracleKeypair(), this.testConnection()
InitializeSteps == {"cli", "oracleKeypair", "connection"}

\* main: the options looked at
Options == {"--help", "--test-cli", "--test-connection"}

\* the re-check window of isRequestPending: 10 * 60 * 1000 ms
WINDOW == 10 * 60 * 1000

\* RequestStatus enum: Pending = 0, Fulfilled = 1, Cancelled = 2, Expired = 3
Pending == 0
Fulfilled == 1
Cancelled == 2
Expired == 3

TickMs == WINDOW \div TicksPerWindow
MaxTime == MaxTicks * TickMs

\* addresses of the accounts owned by the VRF program
Addr == {"acc1", "acc2"}

\* the request whose history is followed: an arbitrary request, always a
\* complete Pending request record at the start
Tracked == "acc1"

\* the 32-byte seed stored in the account at an address
SeedOf(a) == IF a = "acc1" THEN 1 ELSE 2

-----------------------------------------------------------------------------
(* Account data.  An account's data is described by its length in bytes,   *)
(* whether its first 8 bytes are the request discriminator                  *)
(* f4e7e4a0941c11b8, the u32 read at offset 104 (callback_data length),    *)
(* the byte at the status offset and the seed at bytes 40..72; and by the   *)
(* fields that processRequestAccount reads besides: the subscription at    *)
(* bytes 8..40, pool_id, request_index and request_id (the 32 bytes shown  *)
(* by RequestIdBytes).                                                      *)

Account(len, tagOk, cbLen, status, seed) ==
    [len |-> len, tagOk |-> tagOk, cbLen |-> cbLen, status |-> status, seed |-> seed,
     subscription |-> "sub1", poolId |-> seed, requestIndex |-> 255 + seed, requestId |-> seed]

\* a complete request record with an empty callback_data: 166 bytes
FullRequest(a) == Account(166, TRUE, 0, Pending, SeedOf(a))
\* a request record cut after num_words: the scan accepts it, the parse of pool_id fails
TruncatedTail(a) == Account(125, TRUE, 0, Pending, SeedOf(a))
\* an account of another type
OtherAccount(a) == Account(166, FALSE, 0, 0, SeedOf(a))
\* an account of 20 bytes
ShortAccount(a) == Account(20, TRUE, 0, 0, SeedOf(a))

InitLedgers ==
    { [a \in Addr |-> IF a = Tracked THEN FullRequest(a) ELSE d] :
        d \in { FullRequest("acc2"), TruncatedTail("acc2"),
                OtherAccount("acc2"), ShortAccount("acc2") } }

\* isRequestPending: offset of the status byte
StatusOffset(data) == 8 + 32 + 32 + 32 + (4 + data.cbLen) + 8

\* an offset of pool_id that leaves out the status byte
PoolIdOffsetWithoutStatus(data) == 8 + 32 + 32 + 32 + (4 + data.cbLen) + 8 + 4 + 8

\* processRequestAccount: offset of pool_id
PoolIdOffset(data) == 8 + 32 + 32 + 32 + (4 + data.cbLen) + 8 + 1 + 4 + 8

\* processRequestAccount: offset of request_id
RequestIdOffset(data) == PoolIdOffset(data) + 1 + 4

\* the 32 bytes of the request_id numbered v
RequestIdBytes(v) == [i \in 1..32 |-> (v + i) % 256]

\* a scan that does not read the status byte
StatusIsPendingUnread(data) ==
    /\ data.tagOk
    /\ ~(data.len <= 8 + 32 + 32 + 32 + 4)
    /\ ~(data.len <= StatusOffset(data))

\* a check that takes a Fulfilled request for a pending one
StatusIsPendingOrFulfilled(data) ==
    /\ data.tagOk
    /\ ~(data.len <= 8 + 32 + 32 + 32 + 4)
    /\ ~(data.len <= StatusOffset(data))
    /\ data.status \in {0, 1}

\* a check of the discriminator and the status byte without the length tests
StatusIsPendingNoLengthCheck(data) == data.tagOk /\ data.status = 0

\* isRequestPending, after the processedRequests check: discriminator, lengths, status
StatusIsPending(data) ==
    /\ data.tagOk
    /\ ~(data.len <= 8 + 32 + 32 + 32 + 4)
    /\ ~(data.len <= StatusOffset(data))
    /\ data.status = 0

\* processRequestAccount: the reads of the parse stay inside the buffer
\* (readUInt32LE at 104, readUInt8 at pool_id, readUInt32LE at request_index)
ParseSucceeds(data) ==
    /\ 104 + 4 <= data.len
    /\ PoolIdOffset(data) + 1 <= data.len
    /\ PoolIdOffset(data) + 1 + 4 <= data.len

-----------------------------------------------------------------------------
(* Buffers: sequences of bytes; the offsets are those of the code, from 0 *)

\* Buffer.from(hex, 'hex'): two hex digits make one byte, a last single digit is dropped
HexDecode(hex) == [i \in 1..(Len(hex) \div 2) |-> 16 * hex[2 * i - 1] + hex[2 * i]]

\* Buffer.alloc(n): n zero bytes
Alloc(n) == [i \in 1..n |-> 0]

\* src.copy(buf, off): the bytes of src are written into buf from offset off on
\* (b and s range over the one value of buf and of src, which is computed once)
Copy(buf, src, off) ==
    LET Into(b, s) ==
            LET room == Len(b) - off
                n == IF Len(s) < room THEN Len(s) ELSE room
            IN SubSeq(b, 1, off) \o SubSeq(s, 1, n) \o SubSeq(b, off + n + 1, Len(b))
    IN CHOOSE r \in { Into(b, s) : b \in {buf}, s \in {src} } : TRUE

\* the four bytes of v, most significant first
UInt32BE(v) == <<(v \div 16777216) % 256, (v \div 65536) % 256, (v \div 256) % 256, v % 256>>

\* the four bytes of v, least significant first
UInt32LE(v) == <<v % 256, (v \div 256) % 256, (v \div 65536) % 256, (v \div 16777216) % 256>>

\* buf.writeUInt32LE(v, off)
WriteUInt32LE(buf, v, off) == Copy(buf, UInt32LE(v), off)

\* buf.writeUInt8(v, off)
WriteUInt8(buf, v, off) == Copy(buf, <<v>>, off)

\* buf.readUInt32LE(off)
ReadUInt32LE(buf, off) ==
    buf[off + 1] + 256 * buf[off + 2] + 65536 * buf[off + 3] + 16777216 * buf[off + 4]

\* buf.readUInt8(off)
ReadUInt8(buf, off) == buf[off + 1]

\* buf.slice(from, to): the bytes from offset from up to, not including, to
Slice(buf, from, to) == SubSeq(buf, from + 1, IF to > Len(buf) THEN Len(buf) ELSE to)

\* processRequestAccount: request_id is data.slice(offset, offset + 32), cut
\* where the data ends
ParseRequestId(data) ==
    LET have == data.len - RequestIdOffset(data)
    IN Slice(RequestIdBytes(data.requestId), 0, IF have < 0 THEN 0 ELSE have)

-----------------------------------------------------------------------------
(* Request records as bytes *)

\* the request discriminator f4e7e4a0941c11b8
RequestDiscriminator == <<244, 231, 228, 160, 148, 28, 17, 184>>

\* n bytes of value v
Fill(n, v) == [i \in 1..n |-> v]

\* the 32 bytes of the address written s in base 58
AddressBytes(s) == [i \in 1..32 |-> IF s = "sub1" THEN 11 ELSE IF s = "sub2" THEN 12 ELSE 13]

\* the 32 bytes of the seed numbered v
SeedBytes(v) == [i \in 1..32 |-> (3 * v + i) % 256]

\* the bytes of a complete request record in the layout of the on-chain
\* program: discriminator, subscription, seed, requester, callback_data
\* (u32-LE length and the bytes), request_slot, status, num_words,
\* callback_gas_limit, pool_id, request_index, request_id
RecordBytes(data) ==
    (IF data.tagOk THEN RequestDiscriminator ELSE Fill(8, 0))
      \o AddressBytes(data.subscription)
      \o SeedBytes(data.seed)
      \o Fill(32, 33)
      \o UInt32LE(data.cbLen) \o Fill(data.cbLen, 170)
      \o Fill(8, 7)
      \o <<data.status>>
      \o UInt32LE(1)
      \o Fill(8, 9)
      \o <<data.poolId>>
      \o UInt32LE(data.requestIndex)
      \o RequestIdBytes(data.requestId)

\* new PublicKey(bytes).toString(): the address the 32 bytes are, in base 58
Base58(bytes) == CHOOSE s \in {"sub1", "sub2", "other"} : AddressBytes(s) = bytes

\* processRequestAccount: subscription is data.slice(8, 8 + 32), handed on as
\* new PublicKey(subscription).toString()
ParseSubscription(data) ==
    CHOOSE s \in { Base58(bytes) : bytes \in {Slice(RecordBytes(data), 8, 8 + 32)} } : TRUE

\* isRequestPending: the offset of the status byte and the byte read there
ScanStatus(buf) ==
    LET o1 == 8 + 32 + 32 + 32
        callbackDataLength == ReadUInt32LE(buf, o1)
        o2 == o1 + 4 + callbackDataLength
        offset == o2 + 8
    IN [statusOffset |-> offset, status |-> ReadUInt8(buf, offset)]

\* processRequestAccount: the fields read from the data at the running offset
ParseRequestAccount(buf) ==
    LET o1 == 8
        o2 == o1 + 32
        o3 == o2 + 32
        o4 == o3 + 32
        callbackDataLength == ReadUInt32LE(buf, o4)
        o5 == o4 + 4 + callbackDataLength
        o6 == o5 + 8
        o7 == o6 + 1
        o8 == o7 + 4
        o9 == o8 + 8
        o10 == o9 + 1
        o11 == o10 + 4
    IN [subscription |-> Slice(buf, o1, o1 + 32),
        seed |-> Slice(buf, o2, o2 + 32),
        requester |-> Slice(buf, o3, o3 + 32),
        callbackDataLength |-> callbackDataLength,
        poolIdOffset |-> o9,
        poolId |-> ReadUInt8(buf, o9),
        requestIndexOffset |-> o10,
        requestIndex |-> ReadUInt32LE(buf, o10),
        requestIdOffset |-> o11,
        requestId |-> Slice(buf, o11, o11 + 32)]

\* the integration test: the request details read from the account data
TestParseRequest(buf) ==
    LET d1 == 8 + 32 + 32 + 32
        callbackLength == ReadUInt32LE(buf, d1)
        d2 == d1 + 4 + callbackLength
        d3 == d2 + 8 + 1 + 4 + 8
        d4 == d3 + 1
        d5 == d4 + 4
    IN [poolIdOffset |-> d3,
        poolId |-> ReadUInt8(buf, d3),
        requestIndexOffset |-> d4,
        requestIndex |-> ReadUInt32LE(buf, d4),
        requestIdOffset |-> d5,
        requestId |-> Slice(buf, d5, d5 + 32)]

\* the UI demo, waitForFulfillment: the status of the request account
DemoStatus(buf) ==
    LET callbackLen == ReadUInt32LE(buf, 104)
        statusOffset == 108 + callbackLen + 8
    IN [statusOffset |-> statusOffset, status |-> buf[statusOffset + 1]]

-----------------------------------------------------------------------------
(* The fulfillment instruction *)

\* new PublicKey(str)
PublicKey(str) == [key |-> str]

\* this.vrfProgramId: new PublicKey(CONFIG.VRF_PROGRAM_ID)
VrfProgramId == PublicKey("6k1Lmt37b5QQAhPz5YXbTPoHCSCDbSEeNAC96nWZn85a")

\* PublicKey.findProgramAddress(seeds, programId): the address derived from
\* the seeds under the program; different seeds or programs give different addresses
FindProgramAddress(seeds, programId) == [pda |-> seeds, programId |-> programId]

\* this.oracleKeypair.publicKey
OraclePubkey == PublicKey("oracle")

\* SystemProgram.programId
SystemProgramId == PublicKey("11111111111111111111111111111111")

\* the discriminator of fulfill_randomness
FulfillDiscriminator == <<235, 105, 140, 46, 40, 88, 117, 2>>

AccountMeta(pubkey, isSigner, isWritable) ==
    [pubkey |-> pubkey, isSigner |-> isSigner, isWritable |-> isWritable]

\* the account list with the callback program as a seventh account
InstructionKeysWithCallbackProgram(oracle, requestAccount, vrfResultPDA, requestPoolPDA, subscriptionPDA) ==
    << AccountMeta(oracle, TRUE, TRUE),
       AccountMeta(requestAccount, FALSE, TRUE),
       AccountMeta(vrfResultPDA, FALSE, TRUE),
       AccountMeta(requestPoolPDA, FALSE, TRUE),
       AccountMeta(subscriptionPDA, FALSE, TRUE),
       AccountMeta(PublicKey("callback_program"), FALSE, FALSE),
       AccountMeta(SystemProgramId, FALSE, FALSE) >>

\* createFulfillmentInstruction: the accounts of the instruction
InstructionKeys(oracle, requestAccount, vrfResultPDA, requestPoolPDA, subscriptionPDA) ==
    << AccountMeta(oracle, TRUE, TRUE),
       AccountMeta(requestAccount, FALSE, TRUE),
       AccountMeta(vrfResultPDA, FALSE, TRUE),
       AccountMeta(requestPoolPDA, FALSE, TRUE),
       AccountMeta(subscriptionPDA, FALSE, TRUE),
       AccountMeta(SystemProgramId, FALSE, FALSE) >>

\* createFulfillmentInstruction: the instruction data, written field by
\* field into a buffer allocated at its full size
FulfillData(proofBuffer, publicKeyBuffer, requestId, poolId, requestIndex) ==
    LET fulfillTotalSize == 8 + 4 + Len(proofBuffer) + 4 + Len(publicKeyBuffer) + 32 + 1 + 4
        b0 == Copy(Alloc(fulfillTotalSize), FulfillDiscriminator, 0)
        o1 == 8
        b1 == WriteUInt32LE(b0, Len(proofBuffer), o1)
        o2 == o1 + 4
        b2 == Copy(b1, proofBuffer, o2)
        o3 == o2 + Len(proofBuffer)
        b3 == WriteUInt32LE(b2, Len(publicKeyBuffer), o3)
        o4 == o3 + 4
        b4 == Copy(b3, publicKeyBuffer, o4)
        o5 == o4 + Len(publicKeyBuffer)
        b5 == Copy(b4, requestId, o5)
        o6 == o5 + 32
        b6 == WriteUInt8(b5, poolId, o6)
        o7 == o6 + 1
    IN WriteUInt32LE(b6, requestIndex, o7)

\* an instruction that names the subscription of a fixed mapping
CreateFulfillmentInstructionFixedSubscription(requestAccountPubkey, proof, publicKeyHex, requestId, poolId, requestIndex, subscriptionPDAStr) ==
    LET requestAccount == PublicKey(requestAccountPubkey)
        subscriptionPDA == PublicKey("sub1")
        requestPoolPDA == FindProgramAddress(<<"request_pool", subscriptionPDA, poolId>>, VrfProgramId)
        vrfResultPDA == FindProgramAddress(<<"vrf_result", requestAccount>>, VrfProgramId)
    IN [keys |-> InstructionKeys(OraclePubkey, requestAccount, vrfResultPDA,
                                 requestPoolPDA, subscriptionPDA),
        data |-> FulfillData(HexDecode(proof.proof), HexDecode(publicKeyHex),
                             requestId, poolId, requestIndex)]

\* an instruction whose result address is derived from the request id
CreateFulfillmentInstructionResultFromRequestId(requestAccountPubkey, proof, publicKeyHex, requestId, poolId, requestIndex, subscriptionPDAStr) ==
    LET requestAccount == PublicKey(requestAccountPubkey)
        subscriptionPDA == PublicKey(subscriptionPDAStr)
        requestPoolPDA == FindProgramAddress(<<"request_pool", subscriptionPDA, poolId>>, VrfProgramId)
        vrfResultPDA == FindProgramAddress(<<"vrf_result", requestId>>, VrfProgramId)
    IN [keys |-> InstructionKeys(OraclePubkey, requestAccount, vrfResultPDA,
                                 requestPoolPDA, subscriptionPDA),
        data |-> FulfillData(HexDecode(proof.proof), HexDecode(publicKeyHex),
                             requestId, poolId, requestIndex)]

\* createFulfillmentInstruction
CreateFulfillmentInstruction(requestAccountPubkey, proof, publicKeyHex, requestId, poolId, requestIndex, subscriptionPDAStr) ==
    LET requestAccount == PublicKey(requestAccountPubkey)
        subscriptionPDA == PublicKey(subscriptionPDAStr)
        requestPoolPDA == FindProgramAddress(<<"request_pool", subscriptionPDA, poolId>>, VrfProgramId)
        vrfResultPDA == FindProgramAddress(<<"vrf_result", requestAccount>>, VrfProgramId)
    IN [keys |-> InstructionKeys(OraclePubkey, requestAccount, vrfResultPDA,
                                 requestPoolPDA, subscriptionPDA),
        data |-> FulfillData(HexDecode(proof.proof), HexDecode(publicKeyHex),
                             requestId, poolId, requestIndex)]

-----------------------------------------------------------------------------
(* The map of processed requests *)

Has(pr, a) == a \in DOMAIN pr

MapSet(pr, a, rec) == [x \in DOMAIN pr \cup {a} |-> IF x = a THEN rec ELSE pr[x]]

EmptyMap == [x \in {} |-> 0]

\* the test with the comparison turned round
ProcessedRecentlyInverted(rec, t) == t - rec.timestamp > WINDOW

\* the test with the boundary included
ProcessedRecentlyInclusive(rec, t) == t - rec.timestamp <= WINDOW

\* a test under which a record never grows old
ProcessedRecentlyForever(rec, t) == t - rec.timestamp >= 0

\* isRequestPending: "processed recently" test on an existing record
ProcessedRecently(rec, t) == t - rec.timestamp < WINDOW

\* isRequestPending, first part: FALSE when a record exists and is recent
IsEligible(pr, a, t) == ~(Has(pr, a) /\ ProcessedRecently(pr[a], t))

\* isRequestPending on one account: the record check, then the data checks
IsRequestPending(pr, a, data, t) == IsEligible(pr, a, t) /\ StatusIsPending(data)

\* getPendingRequestAccounts: isRequestPending is called for the accounts with
\* at least 32 bytes and the request discriminator
ReachesPendingCheck(data) == ~(data.len < 32) /\ data.tagOk

\* isRequestPending: the records deleted as a side effect of one scan
EvictStale(pr, snap, t) ==
    [x \in { a \in DOMAIN pr :
               ~(ReachesPendingCheck(snap[a]) /\ ~ProcessedRecently(pr[a], t)) } |-> pr[x]]

-----------------------------------------------------------------------------
(* Sequences of addresses in an enumeration order *)

Orders == { s \in [1..Cardinality(Addr) -> Addr] : \A a \in Addr : \E i \in DOMAIN s : s[i] = a }

RECURSIVE Filter(_, _, _, _, _)
\* getPendingRequestAccounts: the for loop over the enumerated accounts
Filter(order, i, pr, snap, t) ==
    IF i > Len(order) THEN <<>>
    ELSE LET a == order[i]
             rest == Filter(order, i + 1, pr, snap, t)
         IN IF ReachesPendingCheck(snap[a]) /\ IsRequestPending(pr, a, snap[a], t)
            THEN <<[pubkey |-> a, data |-> snap[a]]>> \o rest
            ELSE rest

NoProof == [seed |-> 0]

\* the proof printed by the CLI for a seed: a string of hex digits
ProofHexOf(seed) == <<seed, 15>>

\* no instruction has been created
NoInstruction == [keys |-> <<>>, data |-> <<>>]

\* no transaction is being made
NoTxn == [recentBlockhash |-> 0, blockhash |-> 0, lastValidBlockHeight |-> 0]

\* connection.getLatestBlockhash() at block s: the blockhashes are numbered
\* by their blocks, and a blockhash is valid for 150 blocks
GetLatestBlockhash(s) == [blockhash |-> s, lastValidBlockHeight |-> s + 150]

\* the public key of the VRF keypair file: a string of hex digits
VrfPublicKeyHex == <<10, 11>>

StatsZero == [requestsProcessed |-> 0, requestsFulfilled |-> 0, errors |-> 0]

\* process.env.POLLING_INTERVAL is not set: parseInt converts undefined to a string
EnvUnset == <<"u", "n", "d", "e", "f", "i", "n", "e", "d">>

\* the digits of parseInt, by value: the digit of value v is at place v + 1
Digits == <<"0", "1", "2", "3", "4", "5", "6", "7", "8", "9", "a", "b", "c", "d", "e", "f">>
UpperDigits == <<"0", "1", "2", "3", "4", "5", "6", "7", "8", "9", "A", "B", "C", "D", "E", "F">>

\* c is a digit in the radix
IsDigit(c, radix) == \E v \in 1..radix : Digits[v] = c \/ UpperDigits[v] = c

DigitValue(c) == (CHOOSE v \in 1..16 : Digits[v] = c \/ UpperDigits[v] = c) - 1

\* the text without its leading white space
TrimStart(chars) ==
    LET blanks == { i \in 0..Len(chars) : \A j \in 1..i : chars[j] = " " }
        n == CHOOSE i \in blanks : \A k \in blanks : k <= i
    IN SubSeq(chars, n + 1, Len(chars))

\* the value of the longest prefix of digits, and whether there is one
RECURSIVE DigitsPrefix(_, _, _, _)
DigitsPrefix(chars, i, radix, acc) ==
    IF i > Len(chars) \/ ~IsDigit(chars[i], radix)
    THEN [nan |-> i = 1, value |-> acc]
    ELSE DigitsPrefix(chars, i + 1, radix, acc * radix + DigitValue(chars[i]))

\* parseInt(string) without a radix: white space, a sign, 0x for radix 16,
\* then digits up to the first character that is none; NaN without a digit
ParseInt(chars) ==
    LET t == TrimStart(chars)
        signed == Len(t) > 0 /\ t[1] \in {"-", "+"}
        u == IF signed THEN Tail(t) ELSE t
        hex == Len(u) >= 2 /\ u[1] = "0" /\ u[2] \in {"x", "X"}
        r == IF hex THEN DigitsPrefix(SubSeq(u, 3, Len(u)), 1, 16, 0)
                    ELSE DigitsPrefix(u, 1, 10, 0)
    IN IF r.nan THEN [nan |-> TRUE, value |-> 0]
       ELSE [nan |-> FALSE, value |-> IF signed /\ t[1] = "-" THEN 0 - r.value ELSE r.value]

\* number || other: NaN and 0 are falsy
OrElse(number, other) == IF number.nan \/ number.value = 0 THEN other ELSE number.value

\* CONFIG.POLLING_INTERVAL
PollingInterval(e) == OrElse(ParseInt(e), 3000)

\* the argument of the sleep the server is in, in ms; 0 when in none
SleepMs ==
    IF pc = "sleep" THEN PollingInterval(env)
    ELSE IF pc = "backoff" THEN 5000
    ELSE IF pc = "delay" THEN 1000
    ELSE 0

\* the UI demo is not mounted
NoDemo == [status |-> "unmounted"]

\* no VRFEventMonitor is constructed
NoMonitor == [isMonitoring |-> FALSE, listeners |-> 0, notified |-> 0]

\* no second oracle process runs
NoPeer == [pc |-> "off", processedRequests |-> EmptyMap, accounts |-> <<>>, sent |-> 0]

-----------------------------------------------------------------------------
Init ==
    /\ ledger \in InitLedgers
    /\ now = 0
    /\ pc = "constructed"
    /\ isRunning = FALSE
    /\ processedRequests = EmptyMap
    /\ stats = StatsZero
    /\ accounts = <<>>
    /\ idx = 0
    /\ proofResult = NoProof
    /\ isValid = FALSE
    /\ procSends = 0
    /\ sent = 0
    /\ sentTs = 0
    /\ sentHere = FALSE
    /\ restarts = 0
    /\ instruction = NoInstruction
    /\ txn = NoTxn
    /\ slot = 1
    /\ vrfPublicKey = VrfPublicKeyHex
    /\ peer = NoPeer
    /\ env = EnvUnset
    /\ demo = NoDemo
    /\ monitor = NoMonitor
    /\ args = {}
    /\ exitCode = "running"
    /\ initSteps = InitializeSteps

-----------------------------------------------------------------------------
(* The pipeline's locals *)

\* monitorAndProcess: the account the for loop is at
cur == accounts[idx]

\* a loop that begins the next scan while accounts of this cycle are still queued
NextAccountStartsScan == pc' = "scan" /\ UNCHANGED <<accounts, idx>>

\* monitorAndProcess: the for loop goes on to the next account, or the cycle
\* ends and start sleeps POLLING_INTERVAL
NextAccount ==
    IF idx < Len(accounts)
    THEN pc' = "process" /\ idx' = idx + 1 /\ UNCHANGED accounts
    ELSE pc' = "sleep" /\ idx' = 0 /\ accounts' = <<>>

\* processRequestAccount is left: its locals are gone
DropLocals ==
    /\ proofResult' = NoProof /\ isValid' = FALSE /\ procSends' = 0 /\ instruction' = NoInstruction
    /\ txn' = NoTxn

\* processRequestAccount returns false: nothing is counted
ReturnFalse == NextAccount /\ UNCHANGED stats /\ DropLocals

\* a throw of processRequestAccount that is caught by start only: the cycle ends
ThrowEndsCycle ==
    /\ stats.errors < MaxCount
    /\ stats' = [stats EXCEPT !.errors = @ + 1]
    /\ pc' = "backoff" /\ accounts' = <<>> /\ idx' = 0
    /\ DropLocals

\* processRequestAccount throws: monitorAndProcess counts an error and goes on
ThrowToLoop ==
    /\ stats.errors < MaxCount
    /\ stats' = [stats EXCEPT !.errors = @ + 1]
    /\ NextAccount
    /\ DropLocals

\* processRequestAccount: the record stored under the request's address
ProcessingRecord(t, proof, data) == [timestamp |-> t, proof |-> proof, seed |-> data.seed]

\* the on-chain program executes a fulfillment: the request becomes Fulfilled
FulfillOnChain(l, a) == [l EXCEPT ![a].status = Fulfilled]

-----------------------------------------------------------------------------
(* The server *)

\* start: isRunning is set and the first monitorAndProcess begins
Start ==
    /\ pc = "constructed"
    /\ isRunning' = TRUE
    /\ pc' = "scan"
    /\ UNCHANGED <<ledger, now, processedRequests, stats, accounts, idx,
                   proofResult, isValid, procSends, sent, sentTs, sentHere, restarts,
                   instruction, txn, vrfPublicKey, slot, peer, env, demo, monitor, args, exitCode, initSteps>>

\* getPendingRequestAccounts: getProgramAccounts answers; the accounts are
\* filtered in the enumeration order, stale records are deleted on the way
ScanAccounts ==
    /\ pc = "scan"
    /\ \E order \in Orders :
         LET found == Filter(order, 1, processedRequests, ledger, now)
         IN /\ processedRequests' = EvictStale(processedRequests, ledger, now)
            /\ IF Len(found) = 0
               THEN pc' = "sleep" /\ accounts' = <<>> /\ idx' = 0
               ELSE pc' = "process" /\ accounts' = found /\ idx' = 1
    /\ UNCHANGED <<ledger, now, isRunning, stats, proofResult, isValid,
                   procSends, sent, sentTs, sentHere, restarts, instruction, txn, vrfPublicKey, slot, peer, env, demo, monitor, args, exitCode, initSteps>>

\* a failed enumeration that stops the loop
ScanFailsStopsLoop ==
    /\ pc = "scan"
    /\ stats.errors < MaxCount
    /\ stats' = [stats EXCEPT !.errors = @ + 1]
    /\ isRunning' = FALSE
    /\ pc' = "backoff"
    /\ UNCHANGED <<ledger, now, processedRequests, accounts, idx,
                   proofResult, isValid, procSends, sent, sentTs, sentHere, restarts,
                   instruction, txn, vrfPublicKey, slot, peer, env, demo, monitor, args, exitCode, initSteps>>

\* getProgramAccounts throws: monitorAndProcess rethrows, start counts an
\* error and sleeps 5000 ms
ScanFails ==
    /\ pc = "scan"
    /\ stats.errors < MaxCount
    /\ stats' = [stats EXCEPT !.errors = @ + 1]
    /\ pc' = "backoff"
    /\ UNCHANGED <<ledger, now, isRunning, processedRequests, accounts, idx,
                   proofResult, isValid, procSends, sent, sentTs, sentHere, restarts,
                   instruction, txn, vrfPublicKey, slot, peer, env, demo, monitor, args, exitCode, initSteps>>

\* processRequestAccount up to the call of cli.generateProof
ParseRequest ==
    /\ pc = "process"
    /\ IF Has(processedRequests, cur.pubkey) \/ cur.data.len < 8 \/ ~cur.data.tagOk
       THEN ReturnFalse
       ELSE IF ~ParseSucceeds(cur.data)
            THEN ThrowToLoop
            ELSE pc' = "gen" /\ UNCHANGED <<stats, accounts, idx, proofResult, isValid, procSends, instruction, txn>>
    /\ UNCHANGED <<ledger, now, isRunning, processedRequests, sent, sentTs, sentHere, restarts,
                   vrfPublicKey, slot, peer, env, demo, monitor, args, exitCode, initSteps>>

\* cli.generateProof returns a proof of the request's seed
\* generateProof called with the seed of the first request of the cycle
GenerateProofForFirstAccount ==
    /\ pc = "gen"
    /\ proofResult' = [seed |-> accounts[1].data.seed, proof |-> ProofHexOf(accounts[1].data.seed)]
    /\ pc' = "verify"
    /\ UNCHANGED <<ledger, now, isRunning, processedRequests, stats, accounts, idx,
                   isValid, procSends, sent, sentTs, sentHere, restarts, instruction, txn, vrfPublicKey, slot, peer, env, demo, monitor, args, exitCode, initSteps>>

GenerateProof ==
    /\ pc = "gen"
    /\ proofResult' = [seed |-> cur.data.seed, proof |-> ProofHexOf(cur.data.seed)]
    /\ pc' = "verify"
    /\ UNCHANGED <<ledger, now, isRunning, processedRequests, stats, accounts, idx,
                   isValid, procSends, sent, sentTs, sentHere, restarts, instruction, txn, vrfPublicKey, slot, peer, env, demo, monitor, args, exitCode, initSteps>>

\* a failure of generateProof that is not caught per account: it ends the cycle
GenerateProofFailsEndsCycle ==
    /\ pc = "gen"
    /\ stats.errors < MaxCount
    /\ stats' = [stats EXCEPT !.errors = @ + 1]
    /\ pc' = "backoff"
    /\ accounts' = <<>>
    /\ idx' = 0
    /\ DropLocals
    /\ UNCHANGED <<ledger, now, isRunning, processedRequests, sent, sentTs, sentHere, restarts,
                   vrfPublicKey, slot, peer, env, demo, monitor, args, exitCode, initSteps>>

\* cli.generateProof throws (the CLI fails, times out or prints no proof)
GenerateProofFails ==
    /\ pc = "gen"
    /\ ThrowToLoop
    /\ UNCHANGED <<ledger, now, isRunning, processedRequests, sent, sentTs, sentHere, restarts,
                   vrfPublicKey, slot, peer, env, demo, monitor, args, exitCode, initSteps>>

\* a verification whose answer is not looked at: the request is marked and
\* submitted whatever verifyProof says
VerifyProofIgnoresResult ==
    /\ pc = "verify"
    /\ \E v \in BOOLEAN :
         /\ stats.requestsProcessed < MaxCount
         /\ isValid' = v
         /\ processedRequests' =
                MapSet(processedRequests, cur.pubkey,
                       ProcessingRecord(now, proofResult, cur.data))
         /\ stats' = [stats EXCEPT !.requestsProcessed = @ + 1]
         /\ pc' = "derive"
         /\ UNCHANGED <<accounts, idx, proofResult, procSends, instruction, txn>>
    /\ UNCHANGED <<ledger, now, isRunning, sent, sentTs, sentHere, restarts, vrfPublicKey, slot, peer, env, demo, monitor, args, exitCode, initSteps>>

\* a verification that marks the request as processed before looking at the answer
VerifyProofMarksFirst ==
    /\ pc = "verify"
    /\ processedRequests' =
           MapSet(processedRequests, cur.pubkey,
                  ProcessingRecord(now, proofResult, cur.data))
    /\ \E v \in BOOLEAN :
         IF ~v
         THEN ReturnFalse
         ELSE /\ stats.requestsProcessed < MaxCount
              /\ isValid' = v
              /\ stats' = [stats EXCEPT !.requestsProcessed = @ + 1]
              /\ pc' = "derive"
              /\ UNCHANGED <<accounts, idx, proofResult, procSends, instruction, txn>>
    /\ UNCHANGED <<ledger, now, isRunning, sent, sentTs, sentHere, restarts, vrfPublicKey, slot, peer, env, demo, monitor, args, exitCode, initSteps>>

\* cli.verifyProof answers v; on false processRequestAccount returns false, on
\* true the request is marked as processed and submitFulfillment is entered
\* verifyProof where the record is written and the counter is left alone
VerifyProofUncounted ==
    /\ pc = "verify"
    /\ \E v \in BOOLEAN :
         IF ~v
         THEN ReturnFalse /\ UNCHANGED processedRequests
         ELSE /\ stats.requestsProcessed < MaxCount
              /\ isValid' = v
              /\ processedRequests' =
                     MapSet(processedRequests, cur.pubkey,
                            ProcessingRecord(now, proofResult, cur.data))
              /\ stats' = stats
              /\ pc' = "derive"
              /\ UNCHANGED <<accounts, idx, proofResult, procSends, instruction, txn>>
    /\ UNCHANGED <<ledger, now, isRunning, sent, sentTs, sentHere, restarts, vrfPublicKey, slot, peer, env, demo, monitor, args, exitCode, initSteps>>

VerifyProof ==
    /\ pc = "verify"
    /\ \E v \in BOOLEAN :
         IF ~v
         THEN ReturnFalse /\ UNCHANGED processedRequests
         ELSE /\ stats.requestsProcessed < MaxCount
              /\ isValid' = v
              /\ processedRequests' =
                     MapSet(processedRequests, cur.pubkey,
                            ProcessingRecord(now, proofResult, cur.data))
              /\ stats' = [stats EXCEPT !.requestsProcessed = @ + 1]
              /\ pc' = "derive"
              /\ UNCHANGED <<accounts, idx, proofResult, procSends, instruction, txn>>
    /\ UNCHANGED <<ledger, now, isRunning, sent, sentTs, sentHere, restarts, vrfPublicKey, slot, peer, env, demo, monitor, args, exitCode, initSteps>>

\* createFulfillmentInstruction: the addresses are derived and the payload is encoded
CreateInstruction ==
    /\ pc = "derive"
    /\ instruction' =
           CreateFulfillmentInstruction(cur.pubkey, proofResult, vrfPublicKey,
                                        ParseRequestId(cur.data), cur.data.poolId,
                                        cur.data.requestIndex,
                                        ParseSubscription(cur.data))
    /\ pc' = "blockhash"
    /\ UNCHANGED <<ledger, now, isRunning, processedRequests, stats, accounts, idx,
                   proofResult, isValid, procSends, sent, sentTs, sentHere, restarts,
                   txn, vrfPublicKey, slot, peer, env, demo, monitor, args, exitCode, initSteps>>

\* createFulfillmentInstruction throws: submitFulfillment returns success false
CreateInstructionFails ==
    /\ pc = "derive"
    /\ ReturnFalse
    /\ UNCHANGED <<ledger, now, isRunning, processedRequests, sent, sentTs, sentHere, restarts,
                   vrfPublicKey, slot, peer, env, demo, monitor, args, exitCode, initSteps>>

\* getLatestBlockhash answers and the transaction is signed
GetBlockhash ==
    /\ pc = "blockhash"
    /\ txn' = [txn EXCEPT !.recentBlockhash = GetLatestBlockhash(slot).blockhash]
    /\ pc' = "send"
    /\ UNCHANGED <<ledger, now, isRunning, processedRequests, stats, accounts, idx,
                   proofResult, isValid, procSends, sent, sentTs, sentHere, restarts,
                   instruction, vrfPublicKey, slot, peer, env, demo, monitor, args, exitCode, initSteps>>

\* getLatestBlockhash throws: submitFulfillment returns success false
GetBlockhashFails ==
    /\ pc = "blockhash"
    /\ ReturnFalse
    /\ UNCHANGED <<ledger, now, isRunning, processedRequests, sent, sentTs, sentHere, restarts,
                   vrfPublicKey, slot, peer, env, demo, monitor, args, exitCode, initSteps>>

\* the history of one sendRawTransaction call for the current request
RecordSend ==
    IF cur.pubkey = Tracked
    THEN /\ sent < MaxSends
         /\ sent' = sent + 1
         /\ sentTs' = processedRequests[cur.pubkey].timestamp
         /\ sentHere' = TRUE
    ELSE UNCHANGED <<sent, sentTs, sentHere>>

\* sendRawTransaction returns a signature; the second getLatestBlockhash
\* answers and confirmTransaction is called with the blockhash of the first
\* answer and the lastValidBlockHeight of the second
SendTransaction ==
    /\ pc = "send"
    /\ RecordSend
    /\ procSends' = procSends + 1
    /\ txn' = [txn EXCEPT !.blockhash = txn.recentBlockhash,
                          !.lastValidBlockHeight = GetLatestBlockhash(slot).lastValidBlockHeight]
    /\ pc' = "confirm"
    /\ UNCHANGED <<ledger, now, isRunning, processedRequests, stats, accounts, idx,
                   proofResult, isValid, restarts, instruction, vrfPublicKey, slot, peer, env, demo, monitor, args, exitCode, initSteps>>

\* sendRawTransaction throws: submitFulfillment returns success false
\* sendRawTransaction throws and submitFulfillment lets the error through
SendTransactionFailsThrows ==
    /\ pc = "send"
    /\ RecordSend
    /\ ThrowToLoop
    /\ UNCHANGED <<ledger, now, isRunning, processedRequests, restarts, vrfPublicKey, slot, peer, env, demo, monitor, args, exitCode, initSteps>>

\* sendRawTransaction throws: submitFulfillment returns success false
SendTransactionFails ==
    /\ pc = "send"
    /\ RecordSend
    /\ ReturnFalse
    /\ UNCHANGED <<ledger, now, isRunning, processedRequests, restarts, vrfPublicKey, slot, peer, env, demo, monitor, args, exitCode, initSteps>>

\* a confirmation that counts the fulfillment as one more processed request
ConfirmTransactionMiscounted ==
    /\ pc = "confirm"
    /\ ledger[cur.pubkey].status = Pending
    /\ ledger' = FulfillOnChain(ledger, cur.pubkey)
    /\ stats.requestsProcessed < MaxCount
    /\ stats' = [stats EXCEPT !.requestsProcessed = @ + 1]
    /\ pc' = "delay"
    /\ DropLocals
    /\ UNCHANGED <<now, isRunning, processedRequests, accounts, idx, sent, sentTs, sentHere, restarts,
                   vrfPublicKey, slot, peer, env, demo, monitor, args, exitCode, initSteps>>

\* a confirmation after which the loop goes on without sleeping
ConfirmTransactionWithoutDelay ==
    /\ pc = "confirm"
    /\ ledger[cur.pubkey].status = Pending
    /\ ledger' = FulfillOnChain(ledger, cur.pubkey)
    /\ stats.requestsFulfilled < MaxCount
    /\ stats' = [stats EXCEPT !.requestsFulfilled = @ + 1]
    /\ NextAccount
    /\ DropLocals
    /\ UNCHANGED <<now, isRunning, processedRequests, sent, sentTs, sentHere, restarts,
                   vrfPublicKey, slot, peer, env, demo, monitor, args, exitCode, initSteps>>

\* confirmTransaction reports no error: the fulfillment is counted and the
\* loop sleeps 1000 ms before the next account
ConfirmTransaction ==
    /\ pc = "confirm"
    /\ ledger[cur.pubkey].status = Pending
    /\ ledger' = FulfillOnChain(ledger, cur.pubkey)
    /\ stats.requestsFulfilled < MaxCount
    /\ stats' = [stats EXCEPT !.requestsFulfilled = @ + 1]
    /\ pc' = "delay"
    /\ DropLocals
    /\ UNCHANGED <<now, isRunning, processedRequests, accounts, idx, sent, sentTs, sentHere, restarts,
                   vrfPublicKey, slot, peer, env, demo, monitor, args, exitCode, initSteps>>

\* confirmTransaction reports an error or throws: processRequestAccount returns false
ConfirmTransactionFails ==
    /\ pc = "confirm"
    /\ ReturnFalse
    /\ UNCHANGED <<ledger, now, isRunning, processedRequests, sent, sentTs, sentHere, restarts,
                   vrfPublicKey, slot, peer, env, demo, monitor, args, exitCode, initSteps>>

\* a loop that logs the statistics at the end of a cycle and sets them back to zero
InterRequestDelayResetsStats ==
    /\ pc = "delay"
    /\ NextAccount
    /\ stats' = IF idx < Len(accounts) THEN stats ELSE StatsZero
    /\ UNCHANGED <<ledger, now, isRunning, processedRequests,
                   proofResult, isValid, procSends, sent, sentTs, sentHere, restarts,
                   instruction, txn, vrfPublicKey, slot, peer, env, demo, monitor, args, exitCode, initSteps>>

\* monitorAndProcess: the 1000 ms sleep after a processed request is over
InterRequestDelay ==
    /\ pc = "delay"
    /\ NextAccount
    /\ UNCHANGED <<ledger, now, isRunning, processedRequests, stats,
                   proofResult, isValid, procSends, sent, sentTs, sentHere, restarts,
                   instruction, txn, vrfPublicKey, slot, peer, env, demo, monitor, args, exitCode, initSteps>>

\* start: the POLLING_INTERVAL sleep is over, isRunning holds, the next cycle begins
PollingSleep ==
    /\ pc = "sleep"
    /\ isRunning
    /\ pc' = "scan"
    /\ UNCHANGED <<ledger, now, isRunning, processedRequests, stats, accounts, idx,
                   proofResult, isValid, procSends, sent, sentTs, sentHere, restarts,
                   instruction, txn, vrfPublicKey, slot, peer, env, demo, monitor, args, exitCode, initSteps>>

\* start: the 5000 ms sleep after a failed cycle is over, the next cycle begins
BackoffSleep ==
    /\ pc = "backoff"
    /\ isRunning
    /\ pc' = "scan"
    /\ UNCHANGED <<ledger, now, isRunning, processedRequests, stats, accounts, idx,
                   proofResult, isValid, procSends, sent, sentTs, sentHere, restarts,
                   instruction, txn, vrfPublicKey, slot, peer, env, demo, monitor, args, exitCode, initSteps>>

\* a handler that clears isRunning and lets the loop run on to its next test
ShutdownClearsFlagOnly ==
    /\ pc \notin {"constructed", "exited"}
    /\ isRunning' = FALSE
    /\ UNCHANGED <<ledger, now, pc, processedRequests, stats, accounts, idx,
                   proofResult, isValid, procSends, sent, sentTs, sentHere, restarts,
                   instruction, txn, vrfPublicKey, slot, peer, env, demo, monitor, args, exitCode, initSteps>>

\* setupGracefulShutdown: SIGINT or SIGTERM; isRunning is cleared and the
\* process exits, whatever call is pending
Shutdown ==
    /\ pc \notin {"constructed", "exited"}
    /\ isRunning
    /\ isRunning' = FALSE
    /\ pc' = "exited"
    /\ accounts' = <<>>
    /\ idx' = 0
    /\ DropLocals
    /\ exitCode' = "0"
    /\ UNCHANGED <<ledger, now, processedRequests, stats, sent, sentTs, sentHere, restarts,
                   vrfPublicKey, slot, peer, env, demo, monitor, args, initSteps>>

\* a constructor that finds the map of the stopped process again
ConstructorKeepsMap ==
    /\ pc = "exited"
    /\ restarts < MaxRestarts
    /\ isRunning' = FALSE
    /\ stats' = StatsZero
    /\ pc' = "constructed"
    /\ sentHere' = FALSE
    /\ restarts' = restarts + 1
    /\ exitCode' = "running"
    /\ UNCHANGED <<ledger, now, processedRequests, accounts, idx, proofResult, isValid,
                   procSends, sent, sentTs, instruction, txn, vrfPublicKey, slot, peer, env, demo, monitor, args, initSteps>>

\* the constructor of a new server process
Constructor ==
    /\ pc = "exited"
    /\ restarts < MaxRestarts
    /\ processedRequests' = EmptyMap
    /\ isRunning' = FALSE
    /\ stats' = StatsZero
    /\ pc' = "constructed"
    /\ sentHere' = FALSE
    /\ restarts' = restarts + 1
    /\ exitCode' = "running"
    /\ UNCHANGED <<ledger, now, accounts, idx, proofResult, isValid, procSends, sent, sentTs,
                   instruction, txn, vrfPublicKey, slot, peer, env, demo, monitor, args, initSteps>>

-----------------------------------------------------------------------------
(* The environment *)

\* time passes
Tick ==
    /\ now < MaxTime
    /\ now' = now + TickMs
    /\ UNCHANGED <<ledger, pc, isRunning, processedRequests, stats, accounts, idx,
                   proofResult, isValid, procSends, sent, sentTs, sentHere, restarts,
                   instruction, txn, vrfPublicKey, slot, peer, env, demo, monitor, args, exitCode, initSteps>>

\* a Pending request leaves Pending on the ledger without this process seeing
\* a confirmation: fulfilled by a transaction of another sender or by one
\* whose confirmation was lost, cancelled, or expired
LedgerStatusChange ==
    /\ \E a \in Addr, s \in {Fulfilled, Cancelled, Expired} :
         /\ ledger[a].tagOk
         /\ ledger[a].len > StatusOffset(ledger[a])
         /\ ledger[a].status = Pending
         /\ ledger' = [ledger EXCEPT ![a].status = s]
    /\ UNCHANGED <<now, pc, isRunning, processedRequests, stats, accounts, idx,
                   proofResult, isValid, procSends, sent, sentTs, sentHere, restarts,
                   instruction, txn, vrfPublicKey, slot, peer, env, demo, monitor, args, exitCode, initSteps>>

ServerStep ==
    \/ Start
    \/ ScanAccounts
    \/ ScanFails
    \/ ParseRequest
    \/ GenerateProof
    \/ GenerateProofFails
    \/ VerifyProof
    \/ CreateInstruction
    \/ CreateInstructionFails
    \/ GetBlockhash
    \/ GetBlockhashFails
    \/ SendTransaction
    \/ SendTransactionFails
    \/ ConfirmTransaction
    \/ ConfirmTransactionFails
    \/ InterRequestDelay
    \/ PollingSleep
    \/ BackoffSleep

Next ==
    \/ ServerStep
    \/ Shutdown
    \/ Constructor
    \/ Tick
    \/ LedgerStatusChange

Spec == Init /\ [][Next]_vars

\* the loop of start keeps running while no signal arrives
FairSpec == Init /\ [][Next]_vars /\ WF_vars(ServerStep)

-----------------------------------------------------------------------------
(* main *)

\* process.exit(code), or main returns and the process ends (code 0)
ExitWith(code) ==
    /\ pc' = "exited"
    /\ exitCode' = code

\* main: --help prints the usage and returns; otherwise the server is
\* constructed and initialize is entered
MainBegin ==
    /\ pc = "main"
    /\ IF "--help" \in args
       THEN ExitWith("0")
       ELSE pc' = "cliInitialize" /\ UNCHANGED exitCode
    /\ UNCHANGED <<ledger, now, isRunning, processedRequests, stats, accounts, idx,
                   proofResult, isValid, procSends, sent, sentTs, sentHere, restarts,
                   instruction, txn, vrfPublicKey, slot, peer, env, demo, monitor, args, initSteps>>

\* initialize: this.cli.initialize() returns (binary found, keypair loaded or
\* generated, test proof generated and verified)
CliInitialize ==
    /\ pc = "cliInitialize"
    /\ initSteps' = initSteps \cup {"cli"}
    /\ pc' = "loadOracleKeypair"
    /\ UNCHANGED <<ledger, now, isRunning, processedRequests, stats, accounts, idx,
                   proofResult, isValid, procSends, sent, sentTs, sentHere, restarts,
                   instruction, txn, vrfPublicKey, slot, peer, env, demo, monitor, args, exitCode>>

\* initialize: this.cli.initialize() throws; main logs and calls process.exit(1)
CliInitializeFails ==
    /\ pc = "cliInitialize"
    /\ ExitWith("1")
    /\ UNCHANGED <<ledger, now, isRunning, processedRequests, stats, accounts, idx,
                   proofResult, isValid, procSends, sent, sentTs, sentHere, restarts,
                   instruction, txn, vrfPublicKey, slot, peer, env, demo, monitor, args, initSteps>>

\* initialize: loadOracleKeypair reads and parses the keypair file
LoadOracleKeypair ==
    /\ pc = "loadOracleKeypair"
    /\ initSteps' = initSteps \cup {"oracleKeypair"}
    /\ pc' = "testConnection"
    /\ UNCHANGED <<ledger, now, isRunning, processedRequests, stats, accounts, idx,
                   proofResult, isValid, procSends, sent, sentTs, sentHere, restarts,
                   instruction, txn, vrfPublicKey, slot, peer, env, demo, monitor, args, exitCode>>

\* initialize: loadOracleKeypair rethrows; main logs and calls process.exit(1)
LoadOracleKeypairFails ==
    /\ pc = "loadOracleKeypair"
    /\ ExitWith("1")
    /\ UNCHANGED <<ledger, now, isRunning, processedRequests, stats, accounts, idx,
                   proofResult, isValid, procSends, sent, sentTs, sentHere, restarts,
                   instruction, txn, vrfPublicKey, slot, peer, env, demo, monitor, args, initSteps>>

\* initialize: getVersion and getSlot answer
TestConnection ==
    /\ pc = "testConnection"
    /\ initSteps' = initSteps \cup {"connection"}
    /\ pc' = "initialized"
    /\ UNCHANGED <<ledger, now, isRunning, processedRequests, stats, accounts, idx,
                   proofResult, isValid, procSends, sent, sentTs, sentHere, restarts,
                   instruction, txn, vrfPublicKey, slot, peer, env, demo, monitor, args, exitCode>>

\* initialize: testConnection rethrows; main logs and calls process.exit(1)
TestConnectionFails ==
    /\ pc = "testConnection"
    /\ ExitWith("1")
    /\ UNCHANGED <<ledger, now, isRunning, processedRequests, stats, accounts, idx,
                   proofResult, isValid, procSends, sent, sentTs, sentHere, restarts,
                   instruction, txn, vrfPublicKey, slot, peer, env, demo, monitor, args, initSteps>>

\* a main that starts the server whatever options are given
MainAfterInitializeStartsAnyway ==
    /\ pc = "initialized"
    /\ pc' = "constructed"
    /\ UNCHANGED <<ledger, now, isRunning, processedRequests, stats, accounts, idx,
                   proofResult, isValid, procSends, sent, sentTs, sentHere, restarts,
                   instruction, txn, vrfPublicKey, slot, peer, env, demo, monitor, args, exitCode, initSteps>>

\* main, after initialize: with --test-cli or --test-connection main returns;
\* otherwise server.start() is called next
MainAfterInitialize ==
    /\ pc = "initialized"
    /\ IF "--test-cli" \in args \/ "--test-connection" \in args
       THEN ExitWith("0")
       ELSE pc' = "constructed" /\ UNCHANGED exitCode
    /\ UNCHANGED <<ledger, now, isRunning, processedRequests, stats, accounts, idx,
                   proofResult, isValid, procSends, sent, sentTs, sentHere, restarts,
                   instruction, txn, vrfPublicKey, slot, peer, env, demo, monitor, args, initSteps>>

\* a process at the entry of main, with any options
MainInit ==
    /\ ledger \in InitLedgers
    /\ now = 0
    /\ pc = "main"
    /\ isRunning = FALSE
    /\ processedRequests = EmptyMap
    /\ stats = StatsZero
    /\ accounts = <<>>
    /\ idx = 0
    /\ proofResult = NoProof
    /\ isValid = FALSE
    /\ procSends = 0
    /\ sent = 0
    /\ sentTs = 0
    /\ sentHere = FALSE
    /\ restarts = 0
    /\ instruction = NoInstruction
    /\ txn = NoTxn
    /\ slot = 1
    /\ vrfPublicKey = VrfPublicKeyHex
    /\ peer = NoPeer
    /\ env = EnvUnset
    /\ demo = NoDemo
    /\ monitor = NoMonitor
    /\ args \in SUBSET Options
    /\ exitCode = "running"
    /\ initSteps = {}

MainNext ==
    \/ MainBegin
    \/ CliInitialize
    \/ CliInitializeFails
    \/ LoadOracleKeypair
    \/ LoadOracleKeypairFails
    \/ TestConnection
    \/ TestConnectionFails
    \/ MainAfterInitialize
    \/ ServerStep
    \/ Shutdown
    \/ Tick
    \/ LedgerStatusChange

\* one process, from the entry of main to its exit
MainSpec == MainInit /\ [][MainNext]_vars

-----------------------------------------------------------------------------
(* Calls that never answer *)

\* the calls of a cycle to the ledger: getProgramAccounts, getLatestBlockhash,
\* sendRawTransaction, confirmTransaction
LedgerCallStates == {"scan", "blockhash", "send", "confirm"}

\* a call to the ledger gets no answer: the connection is made with a
\* commitment only and the calls are awaited with no timeout, so the await
\* never settles and the loop stays suspended in it
LedgerCallNeverAnswers ==
    /\ pc \in LedgerCallStates
    /\ pc' = "hung"
    /\ UNCHANGED <<ledger, now, isRunning, processedRequests, stats, accounts, idx,
                   proofResult, isValid, procSends, sent, sentTs, sentHere, restarts,
                   instruction, txn, vrfPublicKey, slot, peer, env, demo, monitor, args, exitCode, initSteps>>

\* a server of which any call to the ledger may get no answer; the calls to
\* the CLI are ended by execAsync after 30000 ms (GenerateProofFails, and
\* VerifyProof answering false)
TimeoutNext ==
    \/ ServerStep
    \/ LedgerCallNeverAnswers
    \/ Shutdown
    \/ Tick
    \/ LedgerStatusChange

\* the loop of start keeps running while no signal arrives and no await is pending for ever
TimeoutSpec == Init /\ [][TimeoutNext]_vars /\ WF_vars(ServerStep)

-----------------------------------------------------------------------------
(* A second oracle process.  It runs the same program against the same      *)
(* ledger and clock, with the map of processed requests of its own           *)
(* constructor; of its state the place in the loop, the map, the queue of    *)
(* the cycle and the number of transactions sent for the followed request   *)
(* are kept.                                                                 *)

\* the account the second process is at: the first of its queue
peerCur == peer.accounts[1]

\* a scan of the second process that looks the requests up in the map of the first
PeerScanSharedMap ==
    /\ peer.pc = "scan"
    /\ \E order \in Orders :
         LET found == Filter(order, 1, processedRequests, ledger, now)
         IN peer' = [peer EXCEPT !.accounts = found,
                                 !.pc = IF Len(found) = 0 THEN "sleep" ELSE "process"]
    /\ UNCHANGED <<ledger, now, pc, isRunning, processedRequests, stats, accounts, idx,
                   proofResult, isValid, procSends, sent, sentTs, sentHere, restarts,
                   instruction, txn, vrfPublicKey, slot, env, demo, monitor, args, exitCode, initSteps>>

\* getPendingRequestAccounts in the second process
PeerScan ==
    /\ peer.pc = "scan"
    /\ \E order \in Orders :
         LET found == Filter(order, 1, peer.processedRequests, ledger, now)
         IN peer' = [peer EXCEPT !.processedRequests = EvictStale(peer.processedRequests, ledger, now),
                                 !.accounts = found,
                                 !.pc = IF Len(found) = 0 THEN "sleep" ELSE "process"]
    /\ UNCHANGED <<ledger, now, pc, isRunning, processedRequests, stats, accounts, idx,
                   proofResult, isValid, procSends, sent, sentTs, sentHere, restarts,
                   instruction, txn, vrfPublicKey, slot, env, demo, monitor, args, exitCode, initSteps>>

\* processRequestAccount in the second process, up to submitFulfillment: the
\* proof is generated and verified and the request is marked as processed
PeerProcess ==
    /\ peer.pc = "process"
    /\ IF Has(peer.processedRequests, peerCur.pubkey) \/ ~ParseSucceeds(peerCur.data)
       THEN peer' = [peer EXCEPT !.pc = "sleep", !.accounts = <<>>]
       ELSE peer' = [peer EXCEPT !.pc = "send",
                                 !.processedRequests =
                                     MapSet(@, peerCur.pubkey,
                                            ProcessingRecord(now,
                                                [seed |-> peerCur.data.seed,
                                                 proof |-> ProofHexOf(peerCur.data.seed)],
                                                peerCur.data))]
    /\ UNCHANGED <<ledger, now, pc, isRunning, processedRequests, stats, accounts, idx,
                   proofResult, isValid, procSends, sent, sentTs, sentHere, restarts,
                   instruction, txn, vrfPublicKey, slot, env, demo, monitor, args, exitCode, initSteps>>

\* the second process: generateProof throws or verifyProof answers false
PeerProcessFails ==
    /\ peer.pc = "process"
    /\ peer' = [peer EXCEPT !.pc = "sleep", !.accounts = <<>>]
    /\ UNCHANGED <<ledger, now, pc, isRunning, processedRequests, stats, accounts, idx,
                   proofResult, isValid, procSends, sent, sentTs, sentHere, restarts,
                   instruction, txn, vrfPublicKey, slot, env, demo, monitor, args, exitCode, initSteps>>

\* sendRawTransaction in the second process
PeerSend ==
    /\ peer.pc = "send"
    /\ peer.sent < MaxSends
    /\ peer' = [peer EXCEPT !.pc = "confirm",
                            !.sent = IF peerCur.pubkey = Tracked THEN @ + 1 ELSE @]
    /\ UNCHANGED <<ledger, now, pc, isRunning, processedRequests, stats, accounts, idx,
                   proofResult, isValid, procSends, sent, sentTs, sentHere, restarts,
                   instruction, txn, vrfPublicKey, slot, env, demo, monitor, args, exitCode, initSteps>>

\* confirmTransaction reports no error in the second process
PeerConfirm ==
    /\ peer.pc = "confirm"
    /\ ledger[peerCur.pubkey].status = Pending
    /\ ledger' = FulfillOnChain(ledger, peerCur.pubkey)
    /\ peer' = [peer EXCEPT !.pc = "sleep", !.accounts = <<>>]
    /\ UNCHANGED <<now, pc, isRunning, processedRequests, stats, accounts, idx,
                   proofResult, isValid, procSends, sent, sentTs, sentHere, restarts,
                   instruction, txn, vrfPublicKey, slot, env, demo, monitor, args, exitCode, initSteps>>

\* confirmTransaction reports an error or throws in the second process
PeerConfirmFails ==
    /\ peer.pc = "confirm"
    /\ peer' = [peer EXCEPT !.pc = "sleep", !.accounts = <<>>]
    /\ UNCHANGED <<ledger, now, pc, isRunning, processedRequests, stats, accounts, idx,
                   proofResult, isValid, procSends, sent, sentTs, sentHere, restarts,
                   instruction, txn, vrfPublicKey, slot, env, demo, monitor, args, exitCode, initSteps>>

\* the sleep of the second process is over
PeerSleep ==
    /\ peer.pc = "sleep"
    /\ peer' = [peer EXCEPT !.pc = "scan"]
    /\ UNCHANGED <<ledger, now, pc, isRunning, processedRequests, stats, accounts, idx,
                   proofResult, isValid, procSends, sent, sentTs, sentHere, restarts,
                   instruction, txn, vrfPublicKey, slot, env, demo, monitor, args, exitCode, initSteps>>

PeerStep ==
    \/ PeerScan
    \/ PeerProcess
    \/ PeerProcessFails
    \/ PeerSend
    \/ PeerConfirm
    \/ PeerConfirmFails
    \/ PeerSleep

\* two oracle processes, the second one already in its loop, and one Pending request
TwoInstancesInit ==
    /\ ledger = [a \in Addr |-> IF a = Tracked THEN FullRequest(a) ELSE OtherAccount(a)]
    /\ now = 0
    /\ pc = "constructed"
    /\ isRunning = FALSE
    /\ processedRequests = EmptyMap
    /\ stats = StatsZero
    /\ accounts = <<>>
    /\ idx = 0
    /\ proofResult = NoProof
    /\ isValid = FALSE
    /\ procSends = 0
    /\ sent = 0
    /\ sentTs = 0
    /\ sentHere = FALSE
    /\ restarts = 0
    /\ instruction = NoInstruction
    /\ txn = NoTxn
    /\ slot = 1
    /\ vrfPublicKey = VrfPublicKeyHex
    /\ peer = [NoPeer EXCEPT !.pc = "scan"]
    /\ env = EnvUnset
    /\ demo = NoDemo
    /\ monitor = NoMonitor
    /\ args = {}
    /\ exitCode = "running"
    /\ initSteps = InitializeSteps

TwoInstancesNext ==
    \/ ServerStep
    \/ PeerStep
    \/ Tick

TwoInstancesSpec == TwoInstancesInit /\ [][TwoInstancesNext]_vars

-----------------------------------------------------------------------------
(* The server under the values of the POLLING_INTERVAL setting *)

\* values of the environment variable: unset, empty, no number, zero, below,
\* at and above the backoff, signed, with a unit, with white space, in radix 16
EnvValues ==
    { EnvUnset, <<>>, <<"a", "b", "c">>, <<"0">>, <<"1">>, <<"1", "0", "0", "0">>,
      <<"3", "0", "0", "0">>, <<"4", "9", "9", "9">>, <<"5", "0", "0", "0">>,
      <<"5", "0", "0", "1">>, <<"1", "0", "0", "0", "0">>, <<"-", "1">>,
      <<"+", "2", "5", "0", "0">>, <<"2", "5", "0", "0", "m", "s">>,
      <<" ", "4", "2">>, <<"0", "x", "1", "F", "4", "0">>, <<"1", "e", "4">> }

ConfigInit ==
    /\ ledger = [a \in Addr |-> IF a = Tracked THEN FullRequest(a) ELSE OtherAccount(a)]
    /\ now = 0
    /\ pc = "constructed"
    /\ isRunning = FALSE
    /\ processedRequests = EmptyMap
    /\ stats = StatsZero
    /\ accounts = <<>>
    /\ idx = 0
    /\ proofResult = NoProof
    /\ isValid = FALSE
    /\ procSends = 0
    /\ sent = 0
    /\ sentTs = 0
    /\ sentHere = FALSE
    /\ restarts = 0
    /\ instruction = NoInstruction
    /\ txn = NoTxn
    /\ slot = 1
    /\ vrfPublicKey = VrfPublicKeyHex
    /\ peer = NoPeer
    /\ env \in EnvValues
    /\ demo = NoDemo
    /\ monitor = NoMonitor
    /\ args = {}
    /\ exitCode = "running"
    /\ initSteps = InitializeSteps

ConfigNext ==
    \/ ServerStep
    \/ Shutdown
    \/ Tick

ConfigSpec == ConfigInit /\ [][ConfigNext]_vars

-----------------------------------------------------------------------------
(* The server on a ledger that produces blocks *)

\* the ledger produces a block: the latest blockhash advances
SlotAdvances ==
    /\ slot < MaxSlot
    /\ slot' = slot + 1
    /\ UNCHANGED <<ledger, now, pc, isRunning, processedRequests, stats, accounts, idx,
                   proofResult, isValid, procSends, sent, sentTs, sentHere, restarts,
                   instruction, txn, vrfPublicKey, peer, env, demo, monitor, args, exitCode, initSteps>>

BlockhashInit ==
    /\ ledger = [a \in Addr |-> IF a = Tracked THEN FullRequest(a) ELSE OtherAccount(a)]
    /\ now = 0
    /\ pc = "constructed"
    /\ isRunning = FALSE
    /\ processedRequests = EmptyMap
    /\ stats = StatsZero
    /\ accounts = <<>>
    /\ idx = 0
    /\ proofResult = NoProof
    /\ isValid = FALSE
    /\ procSends = 0
    /\ sent = 0
    /\ sentTs = 0
    /\ sentHere = FALSE
    /\ restarts = 0
    /\ instruction = NoInstruction
    /\ txn = NoTxn
    /\ slot = 1
    /\ vrfPublicKey = VrfPublicKeyHex
    /\ peer = NoPeer
    /\ env = EnvUnset
    /\ demo = NoDemo
    /\ monitor = NoMonitor
    /\ args = {}
    /\ exitCode = "running"
    /\ initSteps = InitializeSteps

BlockhashNext ==
    \/ ServerStep
    \/ SlotAdvances
    \/ Tick

BlockhashSpec == BlockhashInit /\ [][BlockhashNext]_vars

-----------------------------------------------------------------------------
(* The VRFEventMonitor of the integration test (src/unnamed/part_001).  Of  *)
(* its connection the number of registered program-account-change listeners *)
(* is kept, and the number of times a listener was called.                  *)

\* the variables of the server, which the monitor and the UI demo leave alone
serverVars == <<now, pc, isRunning, processedRequests, stats, accounts, idx,
                proofResult, isValid, procSends, sent, sentTs, sentHere, restarts,
                instruction, txn, vrfPublicKey, slot, peer, env, args, exitCode, initSteps>>

\* startMonitoring: returns at once when already monitoring, registers a
\* listener otherwise
StartMonitoring ==
    /\ IF monitor.isMonitoring
       THEN monitor' = monitor
       ELSE /\ monitor.listeners < MaxListeners
            /\ monitor' = [monitor EXCEPT !.isMonitoring = TRUE, !.listeners = @ + 1]
    /\ UNCHANGED <<ledger, demo, serverVars>>

\* startMonitoring when onProgramAccountChange throws: the flag is set and
\* cleared again, nothing is registered and the error is thrown on
StartMonitoringFails ==
    /\ ~monitor.isMonitoring
    /\ monitor' = [monitor EXCEPT !.isMonitoring = FALSE]
    /\ UNCHANGED <<ledger, demo, serverVars>>

\* stopMonitoring
StopMonitoring ==
    /\ monitor' = [monitor EXCEPT !.isMonitoring = FALSE]
    /\ UNCHANGED <<ledger, demo, serverVars>>

\* an account of the program changes: every registered listener is called
ProgramAccountChange ==
    /\ \E a \in Addr, s \in {Fulfilled, Cancelled, Expired} :
         /\ ledger[a].tagOk
         /\ ledger[a].len > StatusOffset(ledger[a])
         /\ ledger[a].status = Pending
         /\ ledger' = [ledger EXCEPT ![a].status = s]
    /\ monitor' = [monitor EXCEPT !.notified = @ + monitor.listeners]
    /\ UNCHANGED <<demo, serverVars>>

MonitorInit ==
    /\ ledger \in InitLedgers
    /\ now = 0
    /\ pc = "constructed"
    /\ isRunning = FALSE
    /\ processedRequests = EmptyMap
    /\ stats = StatsZero
    /\ accounts = <<>>
    /\ idx = 0
    /\ proofResult = NoProof
    /\ isValid = FALSE
    /\ procSends = 0
    /\ sent = 0
    /\ sentTs = 0
    /\ sentHere = FALSE
    /\ restarts = 0
    /\ instruction = NoInstruction
    /\ txn = NoTxn
    /\ slot = 1
    /\ vrfPublicKey = VrfPublicKeyHex
    /\ peer = NoPeer
    /\ env = EnvUnset
    /\ demo = NoDemo
    /\ monitor = NoMonitor
    /\ args = {}
    /\ exitCode = "running"
    /\ initSteps = InitializeSteps

MonitorNext ==
    \/ StartMonitoring
    \/ StartMonitoringFails
    \/ StopMonitoring
    \/ ProgramAccountChange

MonitorSpec == MonitorInit /\ [][MonitorNext]_vars

-----------------------------------------------------------------------------
(* The VRFDemo component of the UI (src/unnamed/part_000): its status, its  *)
(* abort ref, and the requestRandomness calls in progress, each with the    *)
(* place of its waitForFulfillment loop.  The account reads of a loop       *)
(* return what the ledger holds at that moment, which is any of the         *)
(* accounts below, or throw.                                                *)

VRF_TIMEOUT_MS == 60000
POLL_INTERVAL_MS == 2000

\* the clock of the demo advances in steps of 20 s
DemoTickMs == 20000
MaxDemoTime == MaxDemoTicks * DemoTickMs

DemoRequests == 1..MaxDemoRequests

\* nothing read in this iteration (the reads of an iteration are locals of the loop body)
NoRead == [len |-> -1, vecLen |-> 0, cbLen |-> 0, status |-> 0]

\* what getAccountInfo(vrfResultPDA) returns: no account (length 0), or data
\* of some length with the u32 at offset 8
ResultAccounts ==
    { [len |-> 0, vecLen |-> 0, cbLen |-> 0, status |-> 0],
      [len |-> 40, vecLen |-> 1, cbLen |-> 0, status |-> 0],
      [len |-> 75, vecLen |-> 1, cbLen |-> 0, status |-> 0],
      [len |-> 76, vecLen |-> 0, cbLen |-> 0, status |-> 0],
      [len |-> 76, vecLen |-> 1, cbLen |-> 0, status |-> 0] }

\* what getAccountInfo(requestPubkey) returns: no account, or data of some
\* length with the u32 at offset 104 and the byte at the status offset
RequestAccounts ==
    { [len |-> 0, vecLen |-> 0, cbLen |-> 0, status |-> 0],
      [len |-> 108, vecLen |-> 0, cbLen |-> 0, status |-> 1],
      [len |-> 117, vecLen |-> 0, cbLen |-> 0, status |-> 1],
      [len |-> 166, vecLen |-> 0, cbLen |-> 0, status |-> 0],
      [len |-> 166, vecLen |-> 0, cbLen |-> 50, status |-> 1] }

\* a requestRandomness call that was not made
NoDemoRequest ==
    [pc |-> "none", startTime |-> 0, wakeAt |-> 0, ret |-> "none", cancelled |-> FALSE,
     resultRead |-> NoRead, requestRead |-> NoRead, result2Read |-> NoRead]

\* the component after its first render
DemoMounted ==
    [status |-> "idle", abort |-> FALSE, result |-> 0, error |-> "none", timeRemaining |-> 0,
     time |-> 0, reqs |-> [r \in DemoRequests |-> NoDemoRequest]]

\* the places of a requestRandomness call inside the loop of waitForFulfillment
DemoLoopStates == {"readResult", "readRequest", "readResult2", "sleeping"}

\* Math.ceil(ms / 1000)
CeilSeconds(ms) == (ms + 999) \div 1000

\* waitForFulfillment has returned value to the requestRandomness call r,
\* which sets the status from it
DemoReturn(d, r, value) ==
    IF value = "hex"
    THEN [d EXCEPT !.status = "fulfilled", !.result = r,
                   !.reqs[r].pc = "done", !.reqs[r].ret = "hex"]
    ELSE [d EXCEPT !.status = "timeout", !.error = "timeout",
                   !.reqs[r].pc = "done", !.reqs[r].ret = "null"]

\* the head of the loop without the test of the elapsed time
DemoLoopTopWithoutTimeout(d, r) ==
    IF d.abort
    THEN DemoReturn(d, r, "null")
    ELSE LET elapsed == d.time - d.reqs[r].startTime
             remaining == IF VRF_TIMEOUT_MS - elapsed > 0 THEN VRF_TIMEOUT_MS - elapsed ELSE 0
         IN [d EXCEPT !.timeRemaining = CeilSeconds(remaining), !.reqs[r].pc = "readResult"]

\* the head of the loop of waitForFulfillment: the test of the abort ref,
\* setTimeRemaining and the test of the elapsed time
DemoLoopTop(d, r) ==
    IF d.abort
    THEN DemoReturn(d, r, "null")
    ELSE LET elapsed == d.time - d.reqs[r].startTime
             remaining == IF VRF_TIMEOUT_MS - elapsed > 0 THEN VRF_TIMEOUT_MS - elapsed ELSE 0
             d1 == [d EXCEPT !.timeRemaining = CeilSeconds(remaining)]
         IN IF elapsed >= VRF_TIMEOUT_MS
            THEN DemoReturn(d1, r, "null")
            ELSE [d1 EXCEPT !.reqs[r].pc = "readResult"]

\* the end of an iteration: the timer of POLL_INTERVAL_MS is set (the clock
\* is followed up to MaxDemoTime, which stands for that time and any later)
DemoSleep(d, r) ==
    [d EXCEPT !.reqs[r].pc = "sleeping",
              !.reqs[r].wakeAt = IF d.time + POLL_INTERVAL_MS > MaxDemoTime
                                 THEN MaxDemoTime ELSE d.time + POLL_INTERVAL_MS,
              !.reqs[r].resultRead = NoRead, !.reqs[r].requestRead = NoRead,
              !.reqs[r].result2Read = NoRead]

\* the button: requestRandomness up to its first await
DemoRequestRandomness(r) ==
    /\ demo.status \notin {"submitting", "waiting"}
    /\ demo.reqs[r].pc = "none"
    /\ \A q \in DemoRequests : q < r => demo.reqs[q].pc # "none"
    /\ demo' = [demo EXCEPT !.status = "submitting", !.error = "none", !.result = 0,
                            !.abort = FALSE, !.reqs[r].pc = "submitting"]
    /\ UNCHANGED <<ledger, monitor, serverVars>>

\* the transaction of the request is confirmed: the status is set to waiting
\* and waitForFulfillment runs up to its first account read
DemoSubmitConfirmed(r) ==
    /\ demo.reqs[r].pc = "submitting"
    /\ demo.time + VRF_TIMEOUT_MS + DemoTickMs <= MaxDemoTime
    /\ demo' = DemoLoopTop([demo EXCEPT !.status = "waiting",
                                        !.timeRemaining = CeilSeconds(VRF_TIMEOUT_MS),
                                        !.abort = FALSE,
                                        !.reqs[r].startTime = demo.time], r)
    /\ UNCHANGED <<ledger, monitor, serverVars>>

\* sending or confirming the transaction of the request fails
DemoSubmitFails(r) ==
    /\ demo.reqs[r].pc = "submitting"
    /\ demo' = [demo EXCEPT !.status = "error", !.error = "error",
                            !.reqs[r].pc = "done", !.reqs[r].ret = "thrown"]
    /\ UNCHANGED <<ledger, monitor, serverVars>>

\* getAccountInfo(vrfResultPDA) answers
DemoReadResult(r) ==
    /\ demo.reqs[r].pc = "readResult"
    /\ \E acc \in ResultAccounts :
         LET d == [demo EXCEPT !.reqs[r].resultRead = acc]
         IN demo' = IF acc.len > 12 /\ acc.vecLen > 0 /\ acc.len >= 12 + 64
                    THEN DemoReturn(d, r, "hex")
                    ELSE [d EXCEPT !.reqs[r].pc = "readRequest"]
    /\ UNCHANGED <<ledger, monitor, serverVars>>

\* getAccountInfo(requestPubkey) answers
DemoReadRequest(r) ==
    /\ demo.reqs[r].pc = "readRequest"
    /\ \E acc \in RequestAccounts :
         LET d == [demo EXCEPT !.reqs[r].requestRead = acc]
             statusOffset == 108 + acc.cbLen + 8
         IN demo' = IF acc.len > 108 /\ statusOffset < acc.len /\ acc.status = 1
                    THEN [d EXCEPT !.reqs[r].pc = "readResult2"]
                    ELSE DemoSleep(d, r)
    /\ UNCHANGED <<ledger, monitor, serverVars>>

\* the second getAccountInfo(vrfResultPDA) answers
DemoReadResult2(r) ==
    /\ demo.reqs[r].pc = "readResult2"
    /\ \E acc \in ResultAccounts :
         LET d == [demo EXCEPT !.reqs[r].result2Read = acc]
         IN demo' = IF acc.len >= 12 + 64
                    THEN DemoReturn(d, r, "hex")
                    ELSE DemoSleep(d, r)
    /\ UNCHANGED <<ledger, monitor, serverVars>>

\* an account read throws: the catch logs and the iteration ends
DemoReadFails(r) ==
    /\ demo.reqs[r].pc \in {"readResult", "readRequest", "readResult2"}
    /\ demo' = DemoSleep(demo, r)
    /\ UNCHANGED <<ledger, monitor, serverVars>>

\* the timer of the loop fires: the next iteration begins
DemoWake(r) ==
    /\ demo.reqs[r].pc = "sleeping"
    /\ demo.time >= demo.reqs[r].wakeAt
    /\ demo' = DemoLoopTop(demo, r)
    /\ UNCHANGED <<ledger, monitor, serverVars>>

\* a step of the loop of waitForFulfillment of the call r
DemoLoopStep(r) ==
    \/ DemoReadResult(r)
    \/ DemoReadRequest(r)
    \/ DemoReadResult2(r)
    \/ DemoReadFails(r)
    \/ DemoWake(r)

\* the Cancel button, shown while the status is waiting
DemoCancelRequest ==
    /\ demo.status = "waiting"
    /\ demo' = [demo EXCEPT !.abort = TRUE, !.status = "idle",
                            !.reqs = [r \in DemoRequests |->
                                        IF demo.reqs[r].pc \in DemoLoopStates
                                        THEN [demo.reqs[r] EXCEPT !.cancelled = TRUE]
                                        ELSE demo.reqs[r]]]
    /\ UNCHANGED <<ledger, monitor, serverVars>>

\* time passes
DemoTick ==
    /\ demo.time < MaxDemoTime
    /\ demo' = [demo EXCEPT !.time = @ + DemoTickMs]
    /\ UNCHANGED <<ledger, monitor, serverVars>>

DemoInit ==
    /\ ledger = [a \in Addr |-> IF a = Tracked THEN FullRequest(a) ELSE OtherAccount(a)]
    /\ now = 0
    /\ pc = "constructed"
    /\ isRunning = FALSE
    /\ processedRequests = EmptyMap
    /\ stats = StatsZero
    /\ accounts = <<>>
    /\ idx = 0
    /\ proofResult = NoProof
    /\ isValid = FALSE
    /\ procSends = 0
    /\ sent = 0
    /\ sentTs = 0
    /\ sentHere = FALSE
    /\ restarts = 0
    /\ instruction = NoInstruction
    /\ txn = NoTxn
    /\ slot = 1
    /\ vrfPublicKey = VrfPublicKeyHex
    /\ peer = NoPeer
    /\ env = EnvUnset
    /\ demo = DemoMounted
    /\ monitor = NoMonitor
    /\ args = {}
    /\ exitCode = "running"
    /\ initSteps = InitializeSteps

DemoNext ==
    \/ \E r \in DemoRequests : DemoRequestRandomness(r)
    \/ \E r \in DemoRequests : DemoSubmitConfirmed(r)
    \/ \E r \in DemoRequests : DemoSubmitFails(r)
    \/ \E r \in DemoRequests : DemoLoopStep(r)
    \/ DemoCancelRequest
    \/ DemoTick

DemoSpec == DemoInit /\ [][DemoNext]_vars

\* every account read returns or throws, the timers fire and time passes
DemoFairSpec ==
    /\ DemoSpec
    /\ WF_vars(DemoTick)
    /\ \A r \in DemoRequests : WF_vars(DemoLoopStep(r))

-----------------------------------------------------------------------------
(* The scan on arbitrary account data *)

\* lengths of account data around the tests of the scan
RecordLens == {0, 20, 31, 32, 104, 108, 109, 116, 117, 166}

\* values of the u32 at offset 104: small ones, the two around the end of a
\* 166-byte record, and one far beyond any record
CallbackLens == {0, 1, 49, 50, 1000000}

\* account data of every length, with and without the request discriminator,
\* whatever the bytes at the offsets of callback_data length and status say
RawRecords(a) ==
    { Account(len, tagOk, cbLen, status, SeedOf(a)) :
        len \in RecordLens, tagOk \in BOOLEAN, cbLen \in CallbackLens,
        status \in {Pending, Fulfilled} }

\* a started server about to call getPendingRequestAccounts, on a ledger of
\* arbitrary accounts
ScanInit ==
    /\ ledger \in { [a \in Addr |-> IF a = "acc1" THEN r1 ELSE r2] :
                      r1 \in RawRecords("acc1"), r2 \in RawRecords("acc2") }
    /\ now = 0
    /\ pc = "scan"
    /\ isRunning = TRUE
    /\ processedRequests = EmptyMap
    /\ stats = StatsZero
    /\ accounts = <<>>
    /\ idx = 0
    /\ proofResult = NoProof
    /\ isValid = FALSE
    /\ procSends = 0
    /\ sent = 0
    /\ sentTs = 0
    /\ sentHere = FALSE
    /\ restarts = 0
    /\ instruction = NoInstruction
    /\ txn = NoTxn
    /\ slot = 1
    /\ vrfPublicKey = VrfPublicKeyHex
    /\ peer = NoPeer
    /\ env = EnvUnset
    /\ demo = NoDemo
    /\ monitor = NoMonitor
    /\ args = {}
    /\ exitCode = "running"
    /\ initSteps = InitializeSteps

ScanNext == ScanAccounts

ScanSpec == ScanInit /\ [][ScanNext]_vars

-----------------------------------------------------------------------------
(* createFulfillmentInstruction on arbitrary requests, proofs and keys *)

HexDigits == {0, 15}

\* hex strings of n bytes
HexStrings(n) == [1..(2 * n) -> HexDigits]

ProofHexes == UNION { HexStrings(n) : n \in 0..MaxProofBytes }

PublicKeyHexes == UNION { HexStrings(n) : n \in 0..MaxKeyBytes }

\* values of pool_id (a u8) and request_index (a u32)
PoolIds == {0, 7, 255}

RequestIndexes == {0, 1, 256, 16909060, 2147483647}

RequestIdNumbers == {1, 200}

Subscriptions == {"sub1", "sub2"}

\* a started server inside submitFulfillment, about to call
\* createFulfillmentInstruction for a request whose proof has verified
InstructionInit ==
    \E a \in Addr, proofHex \in ProofHexes, keyHex \in PublicKeyHexes, poolId \in PoolIds,
       requestIndex \in RequestIndexes, id \in RequestIdNumbers, sub \in Subscriptions :
        LET data == [FullRequest(a) EXCEPT !.poolId = poolId, !.requestIndex = requestIndex,
                                           !.requestId = id, !.subscription = sub]
            proof == [seed |-> data.seed, proof |-> proofHex]
        IN /\ ledger = [x \in Addr |-> IF x = a THEN data ELSE ShortAccount(x)]
           /\ now = 0
           /\ pc = "derive"
           /\ isRunning = TRUE
           /\ processedRequests = MapSet(EmptyMap, a, ProcessingRecord(0, proof, data))
           /\ stats = [StatsZero EXCEPT !.requestsProcessed = 1]
           /\ accounts = <<[pubkey |-> a, data |-> data]>>
           /\ idx = 1
           /\ proofResult = proof
           /\ isValid = TRUE
           /\ procSends = 0
           /\ sent = 0
           /\ sentTs = 0
           /\ sentHere = FALSE
           /\ restarts = 0
           /\ instruction = NoInstruction
           /\ txn = NoTxn
           /\ slot = 1
           /\ vrfPublicKey = keyHex
           /\ peer = NoPeer
           /\ env = EnvUnset
           /\ demo = NoDemo
           /\ monitor = NoMonitor
           /\ args = {}
           /\ exitCode = "running"
           /\ initSteps = InitializeSteps

InstructionNext == CreateInstruction

InstructionSpec == InstructionInit /\ [][InstructionNext]_vars

-----------------------------------------------------------------------------
(* The scan and the parse on complete request records of every callback length *)

\* lengths of callback_data
LayoutCallbackLens == {0, 1, 2, 50}

\* a complete request record with n bytes of callback_data
LayoutRecord(a, n, status, poolId, requestIndex, sub) ==
    [Account(166 + n, TRUE, n, status, SeedOf(a))
        EXCEPT !.poolId = poolId, !.requestIndex = requestIndex, !.subscription = sub]

\* a started server about to scan a ledger of complete request records
LayoutInit ==
    /\ ledger \in { [a \in Addr |-> IF a = "acc1" THEN r1 ELSE r2] :
                      r1 \in { LayoutRecord("acc1", n, st, pool, ri, sub) :
                                 n \in LayoutCallbackLens, st \in {Pending, Fulfilled},
                                 pool \in PoolIds, ri \in RequestIndexes, sub \in Subscriptions },
                      r2 \in { LayoutRecord("acc2", n, Pending, 7, 1, "sub1") :
                                 n \in LayoutCallbackLens } }
    /\ now = 0
    /\ pc = "scan"
    /\ isRunning = TRUE
    /\ processedRequests = EmptyMap
    /\ stats = StatsZero
    /\ accounts = <<>>
    /\ idx = 0
    /\ proofResult = NoProof
    /\ isValid = FALSE
    /\ procSends = 0
    /\ sent = 0
    /\ sentTs = 0
    /\ sentHere = FALSE
    /\ restarts = 0
    /\ instruction = NoInstruction
    /\ txn = NoTxn
    /\ slot = 1
    /\ vrfPublicKey = VrfPublicKeyHex
    /\ peer = NoPeer
    /\ env = EnvUnset
    /\ demo = NoDemo
    /\ monitor = NoMonitor
    /\ args = {}
    /\ exitCode = "running"
    /\ initSteps = InitializeSteps

LayoutNext == ScanAccounts \/ ParseRequest

LayoutSpec == LayoutInit /\ [][LayoutNext]_vars

-----------------------------------------------------------------------------
(* The fulfillment instruction of the integration test *)

\* test "Simulates end-to-end request and fulfillment with event handling":
\* the keys of fulfillIx
TestFulfillKeys(owner, requestKey, vrfResultPDA, requestPoolPDA, subscriptionPDA) ==
    << [pubkey |-> owner, isSigner |-> TRUE, isWritable |-> TRUE],
       [pubkey |-> requestKey, isSigner |-> FALSE, isWritable |-> TRUE],
       [pubkey |-> vrfResultPDA, isSigner |-> FALSE, isWritable |-> TRUE],
       [pubkey |-> requestPoolPDA, isSigner |-> FALSE, isWritable |-> TRUE],
       [pubkey |-> subscriptionPDA, isSigner |-> FALSE, isWritable |-> TRUE],
       [pubkey |-> SystemProgramId, isSigner |-> FALSE, isWritable |-> FALSE] >>

\* the UI demo: KAMUI_VRF_PROGRAM_ID
DemoVrfProgramId == PublicKey("6k1Lmt37b5QQAhPz5YXbTPoHCSCDbSEeNAC96nWZn85a")

\* the UI demo, waitForFulfillment: the address polled for the result of the
\* request account requestPubkey
DemoResultAddress(requestPubkey) ==
    FindProgramAddress(<<"vrf_result", requestPubkey>>, DemoVrfProgramId)

\* buf.toString('hex'): two hex digits for every byte
HexEncode(buf) ==
    [i \in 1..(2 * Len(buf)) |->
        IF i % 2 = 1 THEN buf[(i + 1) \div 2] \div 16 ELSE buf[i \div 2] % 16]

-----------------------------------------------------------------------------
(* Step and state predicates used by the properties *)

\* the address a is in the array of accounts accts
Queued(accts, a) == \E i \in DOMAIN accts : accts[i].pubkey = a

\* getPendingRequestAccounts returns
ScanReturns == pc = "scan" /\ pc' \in {"process", "sleep"}

\* sendRawTransaction is called for the followed request
SendCalled == sent' = sent + 1

\* sendRawTransaction is called for the current request, whichever it is
AnySendCalled == pc = "send" /\ pc' \notin {"send", "exited"}

\* processRequestAccount ends for the current request without a confirmed fulfillment
ProcessingFails ==
    /\ pc \in {"gen", "verify", "derive", "blockhash", "send", "confirm"}
    /\ pc' \in {"process", "sleep", "backoff"}

\* the current request is the one at address a
CurIs(a) == idx > 0 /\ idx <= Len(accounts) /\ accounts[idx].pubkey = a

-----------------------------------------------------------------------------
(* C1 *)

-----------------------------------------------------------------------------
(* C2 *)

\* C2: within one process, once a transaction was sent for a request, every
\* scan made while the record of that processing is less than 10 minutes old
\* excludes the request, and no second sendRawTransaction call is made for it
\* before the record is 10 minutes old.
C2_OneSubmissionPerWindow ==
    [][/\ (ScanReturns /\ sentHere /\ now - sentTs < 10 * 60 * 1000)
            => ~Queued(accounts', Tracked)
       /\ (SendCalled /\ sentHere) => now - sentTs >= 10 * 60 * 1000]_vars

\* a second scan of the same process excluded the still Pending request:
\* only the other account was queued
C2_Witness ==
    /\ pc = "process"
    /\ Len(accounts) = 1
    /\ accounts[1].pubkey # Tracked
    /\ StatusIsPending(ledger[Tracked])
    /\ sentHere
    /\ sent = 1
    /\ now - sentTs < 10 * 60 * 1000

-----------------------------------------------------------------------------
(* C3 *)

\* C3 (as stated): a request recorded less than 10 minutes ago is excluded by
\* every scan, also by the scans of a restarted process.
C3_LedgerSurvivesRestart ==
    [][(ScanReturns /\ sent >= 1 /\ now - sentTs < 10 * 60 * 1000)
          => ~Queued(accounts', Tracked)]_vars

\* C3 (amended): the ledger does not survive a restart: a constructed process
\* has an empty map and keeps it until its first scan, and a scan made with an
\* empty map queues the request exactly when its data says Pending, whatever
\* was recorded before the stop.
C3_LedgerEmptyAfterRestart ==
    [][/\ pc' = "constructed" => processedRequests' = EmptyMap
       /\ pc = "constructed" => processedRequests' = processedRequests
       /\ (ScanReturns /\ processedRequests = EmptyMap)
            => (Queued(accounts', Tracked) <=> StatusIsPending(ledger[Tracked]))]_vars

\* the restarted process has queued the request it sent a transaction for
\* less than 10 minutes ago
C3_Witness ==
    /\ restarts = 1
    /\ ~sentHere
    /\ sent = 1
    /\ now - sentTs < 10 * 60 * 1000
    /\ pc = "process"
    /\ CurIs(Tracked)

-----------------------------------------------------------------------------
(* C4 *)

-----------------------------------------------------------------------------
(* C5 *)

\* C5: sendRawTransaction is called only after verifyProof answered true for
\* the proof generated from the seed of the request being processed; on the
\* step on which verifyProof answers false the processing ends, no
\* transaction is sent and the map is unchanged.
C5_SendOnlyAfterVerifiedProof ==
    [][/\ (AnySendCalled \/ SendCalled)
            => /\ pc = "send"
               /\ isValid
               /\ proofResult # NoProof
               /\ proofResult.seed = cur.data.seed
               /\ cur.data.seed = SeedOf(cur.pubkey)
       /\ (pc = "verify" /\ pc' \notin {"verify", "exited"} /\ ~isValid')
            => /\ pc' \in {"process", "sleep"}
               /\ processedRequests' = processedRequests
               /\ sent' = sent]_vars

\* a transaction has been sent for the followed request after its proof verified
C5_Witness ==
    /\ pc = "confirm"
    /\ CurIs(Tracked)
    /\ isValid
    /\ proofResult.seed = SeedOf(Tracked)
    /\ sent = 1

-----------------------------------------------------------------------------
(* C6 *)

\* C6 (as stated): every failure of a processing increments the errors counter.
C6_EveryFailureCounted ==
    [][ProcessingFails => stats'.errors = stats.errors + 1]_vars

-----------------------------------------------------------------------------
(* C7 *)

\* cli.generateProof has thrown
GenerateProofThrew == pc = "gen" /\ pc' \notin {"gen", "verify", "exited"}

\* C7: when generateProof fails only that request is aborted: the map is
\* unchanged and holds no record for it, requestsProcessed and
\* requestsFulfilled are unchanged, no transaction is sent, the request
\* passes the eligibility check of the next scan, and the loop goes on with
\* the next queued account, or to the polling sleep after the last one.
C7_ProofFailureAbortsOnlyThatRequest ==
    [][GenerateProofThrew =>
          /\ processedRequests' = processedRequests
          /\ ~Has(processedRequests', cur.pubkey)
          /\ IsEligible(processedRequests', cur.pubkey, now')
          /\ stats'.requestsProcessed = stats.requestsProcessed
          /\ stats'.requestsFulfilled = stats.requestsFulfilled
          /\ sent' = sent
          /\ isRunning'
          /\ IF idx < Len(accounts)
             THEN pc' = "process" /\ idx' = idx + 1 /\ accounts' = accounts
             ELSE pc' = "sleep"]_vars

\* generateProof failed for the first of two queued requests and the loop is
\* at the second; nothing was recorded or counted as processed
C7_Witness ==
    /\ pc = "process"
    /\ idx = 2
    /\ restarts = 0
    /\ stats = [requestsProcessed |-> 0, requestsFulfilled |-> 0, errors |-> 1]
    /\ ParseSucceeds(accounts[1].data)
    /\ processedRequests = EmptyMap
    /\ sent = 0

-----------------------------------------------------------------------------
(* C8 *)

\* C8: when a processing ends with a confirmed submission, exactly one
\* transaction was sent by it, requestsFulfilled grows by exactly 1, the other
\* counters are unchanged by the confirmation, and the map holds the record of
\* the request; a processing never makes a second sendRawTransaction call.
C8_OneSendOneFulfillment ==
    [][/\ (pc = "confirm" /\ pc' = "delay")
            => /\ procSends = 1
               /\ stats'.requestsFulfilled = stats.requestsFulfilled + 1
               /\ stats'.requestsProcessed = stats.requestsProcessed
               /\ stats'.errors = stats.errors
               /\ Has(processedRequests', cur.pubkey)
               /\ processedRequests'[cur.pubkey].seed = cur.data.seed
               /\ sent' = sent
       /\ AnySendCalled => procSends = 0]_vars

\* the followed request was fulfilled by the only transaction sent for it
C8_Witness ==
    /\ pc = "delay"
    /\ restarts = 0
    /\ sent = 1
    /\ stats.requestsFulfilled = 1
    /\ stats.requestsProcessed = 1
    /\ Has(processedRequests, Tracked)
    /\ ledger[Tracked].status = Fulfilled

-----------------------------------------------------------------------------
(* C9 *)

\* C9: in a scan, for every account that reaches the eligibility check: with a
\* record less than 10 minutes old the account is not queued and the record
\* stays; with a record 10 minutes old or older the record is deleted and the
\* account is queued exactly when its data says Pending, as it is with no
\* record.  The scan adds no record and changes no counter.
C9_EligibilityCheck ==
    [][ScanReturns =>
          /\ \A a \in Addr :
               IF ~ReachesPendingCheck(ledger[a])
               THEN /\ ~Queued(accounts', a)
                    /\ Has(processedRequests', a) <=> Has(processedRequests, a)
               ELSE IF Has(processedRequests, a)
                       /\ now - processedRequests[a].timestamp < 10 * 60 * 1000
                    THEN /\ ~Queued(accounts', a)
                         /\ Has(processedRequests', a)
                         /\ processedRequests'[a] = processedRequests[a]
                    ELSE /\ ~Has(processedRequests', a)
                         /\ Queued(accounts', a) <=> StatusIsPending(ledger[a])
          /\ stats' = stats]_vars

\* a scan has deleted the record of the followed request, 10 minutes old or
\* older, and queued the request again in the same process
C9_Witness ==
    /\ pc = "process"
    /\ Queued(accounts, Tracked)
    /\ sentHere
    /\ now - sentTs >= 10 * 60 * 1000
    /\ ~Has(processedRequests, Tracked)

-----------------------------------------------------------------------------
(* C10 *)

\* C10: a request whose proof never verifies is not retried indefinitely:
\* from some point on no proof is verified for it any more, or each failed
\* verification is flagged in the server's state (a counter or the map changes).
C10_InvalidProofNotRetriedForever ==
    \A a \in Addr :
        ([]~(CurIs(a) /\ isValid))
        => \/ <>[]~(CurIs(a) /\ pc = "verify")
           \/ []<><<pc = "verify" /\ pc' \in {"process", "sleep"}
                     /\ (stats' # stats \/ processedRequests' # processedRequests)>>_vars

-----------------------------------------------------------------------------
(* C11 *)

\* the submission for the followed request has failed (its record is in the
\* map and the request is still Pending on the ledger) and the record is 10
\* minutes old or older
RetryDue ==
    /\ Has(processedRequests, Tracked)
    /\ now - processedRequests[Tracked].timestamp >= 10 * 60 * 1000
    /\ StatusIsPending(ledger[Tracked])
    /\ sentHere

\* C11 (as stated): while the scheduler keeps running and scans keep
\* succeeding, a request whose submission failed and that stays Pending is
\* submitted again once the 10-minute window has elapsed.
C11_FailedSubmissionResubmitted ==
    ([]<><<ScanReturns>>_vars /\ [](pc # "exited"))
    => \A n \in 0..(MaxSends - 1) :
         [] ((RetryDue /\ sent = n)
               => <>(sent > n \/ ~StatusIsPending(ledger[Tracked])))

\* C11 (amended): while the scheduler keeps running and scans keep
\* succeeding, a request whose submission failed and that stays Pending is
\* queued again once its record is 10 minutes old, and the record is deleted
\* by the scan that queues it; in the same process no transaction is sent for
\* it before that.  (Whether a transaction is then sent depends on the proof
\* generation, the verification and the preparation of the transaction of
\* that processing.)
C11_FailedSubmissionRequeued ==
    /\ ([]<><<ScanReturns>>_vars /\ [](pc # "exited"))
         => (RetryDue ~> (\/ (pc = "process" /\ Queued(accounts, Tracked)
                               /\ ~Has(processedRequests, Tracked))
                          \/ ~StatusIsPending(ledger[Tracked])))
    /\ [][(SendCalled /\ sentHere) => now - sentTs >= 10 * 60 * 1000]_vars

\* in one process, a second transaction was sent for the request after the
\* submission of the first had failed and its record had grown 10 minutes old
C11_Witness ==
    /\ restarts = 0
    /\ sent = 2
    /\ stats.requestsFulfilled = 0
    /\ pc = "confirm"
    /\ CurIs(Tracked)
    /\ ledger[Tracked].status = Pending

-----------------------------------------------------------------------------
(* C12 *)

\* C12 (as stated): the process never exits between sending a transaction and
\* learning its outcome: while confirmTransaction is awaited no step leads to
\* the exit of the process.
C12_NoExitDuringSubmission ==
    [][pc = "confirm" => pc' # "exited"]_vars

-----------------------------------------------------------------------------
(* C13 *)

\* the server is inside processRequestAccount, or in the delay that follows it
InRequest == pc \in {"process", "gen", "verify", "derive", "blockhash", "send", "confirm", "delay"}

\* C13: a monitorAndProcess cycle starts only from the constructed process or
\* after the sleep that follows the previous cycle (POLLING_INTERVAL after a
\* return, 5000 ms after a throw), when no account of the previous cycle is
\* queued or being processed; inside a cycle the queue is fixed, the loop is at
\* exactly one of its accounts and moves forward one account at a time, and a
\* processing has at most one transaction in flight.
C13_CyclesNeverOverlap ==
    [][/\ (pc' = "scan" /\ pc # "scan")
            => /\ pc \in {"constructed", "sleep", "backoff"}
               /\ accounts = <<>> /\ idx = 0
               /\ proofResult = NoProof /\ procSends = 0
               /\ accounts' = <<>> /\ idx' = 0
       /\ InRequest' => (idx' \in 1..Len(accounts'))
       /\ (InRequest /\ InRequest')
            => /\ accounts' = accounts
               /\ idx' \in {idx, idx + 1}
               /\ (idx' = idx + 1) => (pc' = "process" /\ procSends' = 0)
       /\ procSends' <= 1
       /\ (pc' = "confirm" /\ pc # "confirm") => (pc = "send" /\ procSends' = 1)]_vars

\* a cycle has processed two requests one after the other and, after its
\* sleep, the next cycle starts
C13_Witness ==
    /\ pc = "scan"
    /\ restarts = 0
    /\ now = 0
    /\ stats.requestsProcessed = 2
    /\ accounts = <<>>
    /\ Cardinality(DOMAIN processedRequests) = 2

-----------------------------------------------------------------------------
(* C14 *)

\* processRequestAccount ends for the current account by a throw or by
\* returning false: decode error, proof generation, verification or submission failure
RequestAborted ==
    /\ pc \in {"process", "gen", "verify", "derive", "blockhash", "send", "confirm"}
    /\ pc' \in {"process", "sleep", "backoff", "scan"}
    /\ (pc = "process" => (pc' # "process" \/ idx' # idx))

\* C14: when the processing of one account fails, the loop keeps running and
\* goes on with the next queued account of the same cycle, or, after the last
\* one, to the polling sleep; the failure does not end the cycle early or send
\* the loop to its error backoff.  In a scan, an account that is skipped does
\* not keep an eligible Pending request from being queued, and the scan
\* counts no error.
C14_AccountErrorDoesNotStopLoop ==
    [][/\ RequestAborted
            => /\ isRunning'
               /\ IF idx < Len(accounts)
                  THEN pc' = "process" /\ idx' = idx + 1 /\ accounts' = accounts
                  ELSE pc' = "sleep"
       /\ ScanReturns
            => /\ \A a \in Addr :
                    (IsEligible(processedRequests, a, now) /\ StatusIsPending(ledger[a]))
                    => Queued(accounts', a)
               /\ stats' = stats
               /\ isRunning']_vars

\* the submission of the first queued request has failed and the loop is
\* verifying the proof of the second one in the same cycle
C14_Witness ==
    /\ pc = "verify"
    /\ idx = 2
    /\ restarts = 0
    /\ now = 0
    /\ stats = [requestsProcessed |-> 1, requestsFulfilled |-> 0, errors |-> 0]
    /\ Has(processedRequests, accounts[1].pubkey)
    /\ ledger[accounts[1].pubkey].status = Pending

-----------------------------------------------------------------------------
(* C15 *)

\* C15: when the enumeration of a cycle throws, errors grows by exactly 1,
\* the loop keeps running, nothing is queued, recorded, counted as processed
\* or sent, and the loop sleeps its backoff; from the backoff the only step of
\* the server is the start of another cycle, and, unless a shutdown signal
\* ends the process, that cycle does start.
C15_FailedCycleBacksOffAndContinues ==
    /\ [][(pc = "scan" /\ pc' \notin {"scan", "process", "sleep", "exited"})
             => /\ pc' = "backoff"
                /\ stats' = [stats EXCEPT !.errors = stats.errors + 1]
                /\ isRunning'
                /\ accounts' = <<>> /\ idx' = 0
                /\ processedRequests' = processedRequests
                /\ sent' = sent]_vars
    /\ [][(pc = "backoff" /\ pc' \notin {"backoff", "exited"})
             => /\ pc' = "scan"
                /\ stats' = stats
                /\ processedRequests' = processedRequests]_vars
    /\ (pc = "backoff") ~> (pc = "scan" \/ pc = "exited")

\* a second failed cycle: the loop went on after the first one and is in its
\* backoff again
C15_Witness ==
    /\ pc = "backoff"
    /\ isRunning
    /\ restarts = 0
    /\ stats = [requestsProcessed |-> 0, requestsFulfilled |-> 0, errors |-> 2]
    /\ processedRequests = EmptyMap

-----------------------------------------------------------------------------
(* C16 *)

\* the handler of SIGINT and SIGTERM has run in this process
SignalReceived == ~isRunning /\ pc # "constructed"

\* C16: the signal is handled in every state of the started scheduler
\* (scanning, processing, sleeping); once it has been handled the process is
\* stopped: it starts no scan, processes no account, sends no transaction and
\* changes neither its map nor its counters; only a newly constructed process
\* runs again.
C16_StoppedAfterSignal ==
    /\ [](pc \notin {"constructed", "exited"} => (isRunning /\ ENABLED Shutdown))
    /\ [](SignalReceived => pc = "exited")
    /\ [][(isRunning /\ ~isRunning')
             => (pc' = "exited" /\ accounts' = <<>> /\ sent' = sent)]_vars
    /\ [][SignalReceived
             => /\ pc' \in {"exited", "constructed"}
                /\ sent' = sent
                /\ ~isRunning'
                /\ (pc' = "exited"
                      => (processedRequests' = processedRequests /\ stats' = stats))]_vars

\* the signal arrived while a request was being processed, after the
\* transaction for it was sent: the process is stopped
C16_Witness ==
    /\ pc = "exited"
    /\ ~isRunning
    /\ restarts = 0
    /\ sent = 1
    /\ stats = [requestsProcessed |-> 1, requestsFulfilled |-> 0, errors |-> 0]
    /\ Has(processedRequests, Tracked)
    /\ now > 0

-----------------------------------------------------------------------------
(* C17 *)

\* the data of the account at a is shorter than the fixed-size prefix
\* (discriminator and three 32-byte fields), or the u32 at 104 or the status
\* byte behind the declared callback_data would be read past its end
ReadsPastEnd(a) ==
    \/ ledger[a].len < 8 + 32 + 32 + 32
    \/ 104 + 4 > ledger[a].len
    \/ 104 + 4 + ledger[a].cbLen + 8 + 1 > ledger[a].len

-----------------------------------------------------------------------------
(* C18 *)

\* C18 (as stated): a transaction is sent for a request only if its status on
\* the ledger is Pending, and a request that is not Pending is never queued.
C18_OnlyPendingSubmitted ==
    [][/\ AnySendCalled => ledger[cur.pubkey].status = Pending
       /\ ScanReturns => \A a \in Addr : Queued(accounts', a) => ledger[a].status = Pending]_vars

\* C18 (amended): a scan queues only requests whose status is Pending on the
\* ledger at the time of the scan, with the data it read; the processing works
\* on that data and does not read the account again, so a transaction is sent
\* only for a request whose status was Pending in the scan of the same cycle,
\* whatever its status on the ledger has become since.
C18_OnlyObservedPendingSubmitted ==
    [][/\ ScanReturns
            => \A i \in DOMAIN accounts' :
                  /\ accounts'[i].data = ledger[accounts'[i].pubkey]
                  /\ accounts'[i].data.status = Pending
       /\ (InRequest /\ InRequest') => accounts' = accounts
       /\ AnySendCalled => cur.data.status = Pending]_vars

\* a transaction was sent for a request that was cancelled or had expired on
\* the ledger after the scan had queued it as Pending
C18_Witness ==
    /\ pc = "confirm"
    /\ CurIs(Tracked)
    /\ sent = 1
    /\ cur.data.status = Pending
    /\ ledger[Tracked].status \in {Cancelled, Expired}

-----------------------------------------------------------------------------
(* C19 *)

\* C19: the instruction created for a request names exactly six accounts, in
\* this order: the oracle identity (signer, writable), the request account,
\* the result address derived from the request account, the request-pool
\* address derived from the subscription and the pool id, the subscription
\* address (all four writable, not signers), and the system program
\* (read-only, not a signer); it is the list the integration test submits
\* for the same addresses.
C19_SixAccountsInOrder ==
    (instruction # NoInstruction) =>
        LET keys == instruction.keys
            request == [key |-> cur.pubkey]
            sub == [key |-> cur.data.subscription]
            program == [key |-> "6k1Lmt37b5QQAhPz5YXbTPoHCSCDbSEeNAC96nWZn85a"]
            result == [pda |-> <<"vrf_result", request>>, programId |-> program]
            pool == [pda |-> <<"request_pool", sub, cur.data.poolId>>, programId |-> program]
        IN /\ Len(keys) = 6
           /\ keys[1] = [pubkey |-> [key |-> "oracle"], isSigner |-> TRUE, isWritable |-> TRUE]
           /\ keys[2] = [pubkey |-> request, isSigner |-> FALSE, isWritable |-> TRUE]
           /\ keys[3] = [pubkey |-> result, isSigner |-> FALSE, isWritable |-> TRUE]
           /\ keys[4] = [pubkey |-> pool, isSigner |-> FALSE, isWritable |-> TRUE]
           /\ keys[5] = [pubkey |-> sub, isSigner |-> FALSE, isWritable |-> TRUE]
           /\ keys[6] = [pubkey |-> [key |-> "11111111111111111111111111111111"],
                         isSigner |-> FALSE, isWritable |-> FALSE]
           /\ keys = TestFulfillKeys([key |-> "oracle"], request, result, pool, sub)

\* an instruction was created for the request at acc2 of subscription sub2, pool 7
C19_Witness ==
    /\ pc = "blockhash"
    /\ Len(instruction.keys) = 6
    /\ cur.pubkey = "acc2"
    /\ cur.data.subscription = "sub2"
    /\ cur.data.poolId = 7
    /\ instruction.keys[4].pubkey.pda = <<"request_pool", [key |-> "sub2"], 7>>

-----------------------------------------------------------------------------
(* C20 *)

\* C20: the data of the created instruction has exactly
\* 8 + 4 + len(proof) + 4 + len(publicKey) + 32 + 1 + 4 bytes: the
\* discriminator, the u32-LE proof length, the proof, the u32-LE public-key
\* length, the public key, requestId, poolId and the u32-LE requestIndex, back
\* to back; read back at those offsets, the fields are the proof and the
\* public key (as the hex strings they came from), the requestId, the poolId
\* and the requestIndex of the request.
C20_PayloadRoundTrip ==
    (instruction # NoInstruction) =>
        LET d == instruction.data
            proofLen == Len(proofResult.proof) \div 2
            keyLen == Len(vrfPublicKey) \div 2
            keyAt == 8 + 4 + proofLen
            idAt == keyAt + 4 + keyLen
        IN /\ Len(d) = 8 + 4 + proofLen + 4 + keyLen + 32 + 1 + 4
           /\ SubSeq(d, 1, 8) = <<235, 105, 140, 46, 40, 88, 117, 2>>
           /\ ReadUInt32LE(d, 8) = proofLen
           /\ HexEncode(SubSeq(d, 8 + 4 + 1, 8 + 4 + proofLen)) = proofResult.proof
           /\ ReadUInt32LE(d, keyAt) = keyLen
           /\ HexEncode(SubSeq(d, keyAt + 4 + 1, keyAt + 4 + keyLen)) = vrfPublicKey
           /\ SubSeq(d, idAt + 1, idAt + 32) = RequestIdBytes(cur.data.requestId)
           /\ ReadUInt8(d, idAt + 32) = cur.data.poolId
           /\ ReadUInt32LE(d, idAt + 33) = cur.data.requestIndex

\* a payload of 56 bytes was encoded: a proof of 2 bytes, a key of 1 byte,
\* pool id 255 and request index 0x01020304
C20_Witness ==
    /\ pc = "blockhash"
    /\ Len(instruction.data) = 56
    /\ proofResult.proof = <<15, 0, 0, 15>>
    /\ vrfPublicKey = <<15, 15>>
    /\ cur.data.poolId = 255
    /\ cur.data.requestIndex = 16909060
    /\ SubSeq(instruction.data, 53, 56) = <<4, 3, 2, 1>>

-----------------------------------------------------------------------------
(* C21 *)

\* C21: for a complete request record with callback_data of any length len,
\* the scanner reads the status at 116 + len, the pipeline reads
\* subscription at 8..40, seed at 40..72, requester at 72..104, the
\* callback_data length (u32-LE) at 104, pool_id at 129 + len, request_index
\* (u32-LE) at 130 + len and request_id at 134 + len..166 + len, and each read
\* gives the field the record holds; the integration test reads pool_id,
\* request_index and request_id at the same offsets and the UI demo reads the
\* status at the same offset as the scanner.
C21_FieldOffsetsAgree ==
    \A a \in Addr :
        LET d == ledger[a]
            len == d.cbLen
            b == RecordBytes(d)
            p == ParseRequestAccount(b)
            t == TestParseRequest(b)
            sc == ScanStatus(b)
            ui == DemoStatus(b)
        IN /\ Len(b) = 166 + len
           /\ p.subscription = SubSeq(b, 8 + 1, 40) /\ p.subscription = AddressBytes(d.subscription)
           /\ p.seed = SubSeq(b, 40 + 1, 72) /\ p.seed = SeedBytes(d.seed)
           /\ p.requester = SubSeq(b, 72 + 1, 104)
           /\ p.callbackDataLength = len
           /\ sc.statusOffset = 116 + len /\ sc.status = d.status
           /\ StatusOffset(d) = 116 + len
           /\ p.poolIdOffset = 129 + len /\ p.poolId = d.poolId
           /\ PoolIdOffset(d) = 129 + len
           /\ p.requestIndexOffset = 130 + len /\ p.requestIndex = d.requestIndex
           /\ p.requestIdOffset = 134 + len /\ RequestIdOffset(d) = 134 + len
           /\ p.requestId = SubSeq(b, 134 + len + 1, 166 + len)
           /\ p.requestId = RequestIdBytes(d.requestId)
           /\ ParseRequestId(d) = p.requestId
           /\ t.poolIdOffset = p.poolIdOffset /\ t.poolId = p.poolId
           /\ t.requestIndexOffset = p.requestIndexOffset /\ t.requestIndex = p.requestIndex
           /\ t.requestIdOffset = p.requestIdOffset /\ t.requestId = p.requestId
           /\ ui.statusOffset = sc.statusOffset /\ ui.status = sc.status

\* a record with 50 bytes of callback_data, pool id 255 and request index
\* 0x01020304 was found Pending by the scan and parsed by the pipeline
C21_Witness ==
    /\ pc = "gen"
    /\ cur.pubkey = "acc1"
    /\ cur.data.cbLen = 50
    /\ cur.data.len = 216
    /\ cur.data.poolId = 255
    /\ cur.data.requestIndex = 16909060
    /\ ParseRequestAccount(RecordBytes(cur.data)).poolIdOffset = 179

-----------------------------------------------------------------------------
(* C22 *)

\* C22: over the lifetime of a process none of the counters requestsProcessed,
\* requestsFulfilled and errors ever decreases or is set back: every step
\* other than the construction of a new process leaves each of them where it
\* was or higher, and start itself leaves them as the constructor set them.
C22_CountersNeverDecrease ==
    /\ [][pc' # "constructed"
            => /\ stats'.requestsProcessed >= stats.requestsProcessed
               /\ stats'.requestsFulfilled >= stats.requestsFulfilled
               /\ stats'.errors >= stats.errors]_vars
    /\ [][pc = "constructed" => stats' = stats]_vars

\* a process has counted two processed requests, one fulfillment and one
\* error and is in a later cycle
C22_Witness ==
    /\ pc = "scan"
    /\ restarts = 0
    /\ stats = [requestsProcessed |-> 2, requestsFulfilled |-> 1, errors |-> 1]

-----------------------------------------------------------------------------
(* C23 *)

\* the for loop of monitorAndProcess goes from one queued request to the next
NextRequestBegins == idx >= 1 /\ idx' = idx + 1 /\ pc' = "process"

FulfillmentCounted == stats'.requestsFulfilled = stats.requestsFulfilled + 1

-----------------------------------------------------------------------------
(* C24 *)

\* C24: the subscription account named in the instruction created for a
\* request (the fifth account), and the subscription from which the
\* request-pool address (the fourth account) is derived, is the address held
\* in bytes 8..40 of the record of that very request: the one the instruction
\* names as its request account.
C24_SubscriptionFromRequestRecord ==
    (instruction # NoInstruction) =>
        LET keys == instruction.keys
            record == RecordBytes(cur.data)
            subscriptionRef == SubSeq(record, 8 + 1, 40)
            sub == PublicKey(Base58(subscriptionRef))
        IN /\ keys[2].pubkey = PublicKey(cur.pubkey)
           /\ cur.data = ledger[cur.pubkey]
           /\ keys[5].pubkey = sub
           /\ keys[4].pubkey = FindProgramAddress(<<"request_pool", sub, cur.data.poolId>>, VrfProgramId)

\* an instruction was created for a request of subscription sub2 while the
\* other account of the program holds sub1
C24_Witness ==
    /\ pc = "blockhash"
    /\ instruction # NoInstruction
    /\ cur.pubkey = "acc1"
    /\ SubSeq(RecordBytes(cur.data), 9, 40) = AddressBytes("sub2")
    /\ ledger["acc2"].subscription = "sub1"
    /\ instruction.keys[5].pubkey = PublicKey("sub2")

-----------------------------------------------------------------------------
(* C25 *)

\* request ids and request indexes of two requests
OtherRequests == {[id |-> 1, requestIndex |-> 0], [id |-> 200, requestIndex |-> 16909060]}

\* C25: the request-pool address of an instruction is the same whatever the
\* request account, the proof, the request id and the request index are, as
\* long as the subscription and the pool id (and the program) are the same,
\* and its result address is the same whatever the subscription, the pool id,
\* the request id and the request index are, as long as the request account
\* is the same; a derivation with identical inputs gives the identical
\* address; and the result address is the address the UI demo polls for that
\* request account.
C25_AddressesDependOnlyOnTheirSeeds ==
    (instruction # NoInstruction) =>
        LET keys == instruction.keys
            sub == ParseSubscription(cur.data)
        IN /\ \A a \in Addr, proofHex \in {<<>>, <<15, 0>>}, r \in OtherRequests :
                 CreateFulfillmentInstruction(a, [seed |-> SeedOf(a), proof |-> proofHex],
                                              vrfPublicKey, RequestIdBytes(r.id),
                                              cur.data.poolId, r.requestIndex, sub).keys[4].pubkey
                   = keys[4].pubkey
           /\ \A s \in Subscriptions, poolId \in PoolIds, r \in OtherRequests :
                 CreateFulfillmentInstruction(cur.pubkey, proofResult, vrfPublicKey,
                                              RequestIdBytes(r.id), poolId, r.requestIndex,
                                              s).keys[3].pubkey
                   = keys[3].pubkey
           /\ DemoResultAddress(PublicKey(cur.pubkey)) = keys[3].pubkey

\* an instruction was created for the request account acc2, of subscription
\* sub2 and pool 255: its result address is derived from acc2 under the
\* program of the server
C25_Witness ==
    /\ pc = "blockhash"
    /\ instruction # NoInstruction
    /\ cur.pubkey = "acc2"
    /\ cur.data.subscription = "sub2"
    /\ cur.data.poolId = 255
    /\ instruction.keys[3].pubkey.pda = <<"vrf_result", PublicKey("acc2")>>
    /\ instruction.keys[3].pubkey.programId = VrfProgramId

-----------------------------------------------------------------------------
(* C26 *)

\* the process is in the monitoring loop: start has been called and the
\* process has not exited
InMonitoringLoop == pc \in {"scan", "process", "gen", "verify", "derive", "blockhash",
                            "send", "confirm", "delay", "sleep", "backoff"}

\* C26: the process is in the monitoring loop only when this.cli.initialize,
\* loadOracleKeypair and testConnection have all succeeded and none of --help,
\* --test-cli and --test-connection was given; a step of initialize that
\* fails ends the process with exit code 1, and a process that has ended with
\* exit code 1 has started no loop, made no scan, recorded no request and sent
\* no transaction.
C26_LoopOnlyAfterInitialization ==
    /\ []((InMonitoringLoop \/ isRunning)
            => (initSteps = InitializeSteps /\ args = {}))
    /\ [][(pc \in {"cliInitialize", "loadOracleKeypair", "testConnection"}
             /\ initSteps' = initSteps /\ pc' # pc)
            => (pc' = "exited" /\ exitCode' = "1")]_vars
    /\ [](exitCode = "1"
            => (pc = "exited" /\ ~isRunning /\ initSteps # InitializeSteps
                  /\ sent = 0 /\ stats = StatsZero /\ processedRequests = EmptyMap
                  /\ accounts = <<>>))
    /\ [][exitCode = "1"
            => UNCHANGED <<pc, exitCode, isRunning, processedRequests, stats, accounts, sent>>]_vars

\* the connection test has failed after the CLI and the oracle keypair were
\* ready: the process has exited with code 1
C26_Witness ==
    /\ pc = "exited"
    /\ exitCode = "1"
    /\ initSteps = {"cli", "oracleKeypair"}
    /\ args = {}
    /\ sent = 0

-----------------------------------------------------------------------------
(* C27 *)

\* C27: a call of a cycle that never answers is ended by its timeout and
\* counts as a failure of the one request: whenever a call to the ledger gets
\* no answer, the scheduler later goes on, to the next request or to the sleep
\* before the next cycle (or the process is stopped by a signal).
C27_UnansweredCallEndsAsFailure ==
    (pc = "hung") ~> (pc \in {"process", "sleep", "backoff", "scan", "exited"})

\* the queue q holds the followed request
Queues(q) == \E i \in DOMAIN q : q[i].pubkey = Tracked

\* C28: with two oracle processes polling the same program, each process
\* decides whether a request is eligible from the map of its own constructor
\* alone: a scan queues the followed request exactly when the request is
\* pending by the scanning process's own records, whatever the other process
\* has recorded, so a record in one process does not keep the other from
\* queueing, and then sending for, the same Pending request.
C28_NoExclusionAcrossInstances ==
    [][/\ (peer.pc = "scan" /\ peer'.pc # "scan")
            => (Queues(peer'.accounts)
                  <=> (/\ ReachesPendingCheck(ledger[Tracked])
                       /\ IsRequestPending(peer.processedRequests, Tracked, ledger[Tracked], now)))
       /\ (pc = "scan" /\ pc' \in {"process", "sleep"})
            => (Queues(accounts')
                  <=> (/\ ReachesPendingCheck(ledger[Tracked])
                       /\ IsRequestPending(processedRequests, Tracked, ledger[Tracked], now)))
       /\ (peer.pc = "send" /\ peer'.pc = "confirm")
            => (peer'.sent = peer.sent + 1 /\ Has(peer.processedRequests, Tracked))]_vars

\* both processes have sent a fulfillment transaction for the followed
\* request, which is still Pending, the second within the window of the
\* first one's record
C28_Witness ==
    /\ sent >= 1
    /\ peer.sent >= 1
    /\ ledger[Tracked].status = Pending
    /\ pc = "confirm"
    /\ peer.pc = "confirm"
    /\ Has(processedRequests, Tracked)
    /\ Has(peer.processedRequests, Tracked)
    /\ ProcessedRecently(processedRequests[Tracked], now)
    /\ ProcessedRecently(peer.processedRequests[Tracked], now)

\* C29: the backoff sleep after a failed cycle is strictly longer than the
\* sleep after a successful cycle, for every value the POLLING_INTERVAL
\* setting can take.
C29_BackoffLongerThanPollingSleep ==
    pc = "backoff" => SleepMs > PollingInterval(env)

\* a record is written into the map of processed requests in this step
RecordWritten ==
    \E a \in DOMAIN processedRequests' :
        ~Has(processedRequests, a) \/ processedRequests'[a] # processedRequests[a]

\* C30: requestsFulfilled never exceeds requestsProcessed; requestsProcessed
\* counts the record writes since the server was constructed: a step writes a
\* record exactly when it adds 1 to requestsProcessed, and requestsProcessed
\* changes in no other way than by that 1 or by the constructor's reset along
\* with an empty map; so the map never holds more addresses than
\* requestsProcessed.
C30_ProcessedCountsRecordWrites ==
    /\ [](/\ stats.requestsFulfilled <= stats.requestsProcessed
          /\ Cardinality(DOMAIN processedRequests) <= stats.requestsProcessed)
    /\ [][RecordWritten <=> stats'.requestsProcessed = stats.requestsProcessed + 1]_vars
    /\ [][stats'.requestsProcessed # stats.requestsProcessed
            => \/ stats'.requestsProcessed = stats.requestsProcessed + 1
               \/ (stats' = StatsZero /\ processedRequests' = EmptyMap)]_vars

\* two records were written, one of the two requests was fulfilled, and one
\* record has been evicted since
C30_Witness ==
    /\ stats.requestsProcessed = 2
    /\ stats.requestsFulfilled = 1
    /\ Cardinality(DOMAIN processedRequests) = 1
    /\ restarts = 0

-----------------------------------------------------------------------------
(* C31 *)

\* C31: every account a scan has queued can be parsed by processRequestAccount
\* without a read past the end of its data: pool_id, request_index and the
\* 32 bytes of request_id lie inside the buffer.
C31_QueuedRequestParses ==
    \A i \in DOMAIN accounts :
        /\ ParseSucceeds(accounts[i].data)
        /\ RequestIdOffset(accounts[i].data) + 32 <= accounts[i].data.len

-----------------------------------------------------------------------------
(* C32 *)

\* C32: the payload and the accounts of a transaction being submitted belong
\* to one request, the one at the address being processed: the request
\* account is that address, the result address is derived from it, the pool
\* address from the subscription and pool id of its record, and the proof in
\* the payload is the one generated from the seed of its record, followed by
\* its requestId, poolId and requestIndex; whatever the order of the cycle.
C32_TransactionOfOneRequest ==
    (pc \in {"send", "confirm"}) =>
        LET a == instruction.keys[2].pubkey.key
            rec == ledger[a]
            d == instruction.data
            proofBytes == HexDecode(ProofHexOf(rec.seed))
            idAt == 8 + 4 + Len(proofBytes) + 4 + Len(HexDecode(vrfPublicKey))
        IN /\ a = accounts[idx].pubkey
           /\ proofResult.seed = rec.seed
           /\ instruction.keys[3].pubkey = FindProgramAddress(<<"vrf_result", PublicKey(a)>>, VrfProgramId)
           /\ instruction.keys[4].pubkey =
                  FindProgramAddress(<<"request_pool", PublicKey(rec.subscription), rec.poolId>>,
                                     VrfProgramId)
           /\ instruction.keys[5].pubkey = PublicKey(rec.subscription)
           /\ SubSeq(d, 8 + 4 + 1, 8 + 4 + Len(proofBytes)) = proofBytes
           /\ SubSeq(d, idAt + 1, idAt + 32) = RequestIdBytes(rec.requestId)
           /\ ReadUInt8(d, idAt + 32) = rec.poolId
           /\ ReadUInt32LE(d, idAt + 33) = rec.requestIndex

\* the second request of a cycle has its transaction sent, after a
\* transaction was sent for the first one
C32_Witness ==
    /\ pc = "confirm"
    /\ idx = 2
    /\ accounts[1].pubkey = Tracked
    /\ accounts[2].pubkey = "acc2"
    /\ instruction.keys[2].pubkey.key = "acc2"
    /\ sent >= 1
    /\ ledger[Tracked].seed # ledger["acc2"].seed

-----------------------------------------------------------------------------
(* C33 *)

\* the places of the server inside submitFulfillment
InSubmitFulfillment == pc \in {"derive", "blockhash", "send", "confirm"}

\* C33: submitFulfillment never throws: a step that leaves it without the
\* process exiting either returns success, which happens only from the
\* confirmation of a request the ledger held as Pending and fulfils, or
\* returns a failure, after which the loop goes on to the next account or to
\* the polling sleep with no error counted and never to the backoff; no step
\* inside it changes the map of processed requests, requestsProcessed or
\* errors, and requestsFulfilled changes only by the caller's 1 on success.
C33_SubmitFulfillmentNeverThrows ==
    [][(InSubmitFulfillment /\ pc' # "exited") =>
          /\ pc' \in {"derive", "blockhash", "send", "confirm", "delay", "process", "sleep"}
          /\ processedRequests' = processedRequests
          /\ stats'.errors = stats.errors
          /\ stats'.requestsProcessed = stats.requestsProcessed
          /\ (pc' = "delay") =>
                 /\ pc = "confirm"
                 /\ ledger[cur.pubkey].status = Pending
                 /\ ledger'[cur.pubkey].status = Fulfilled
                 /\ stats'.requestsFulfilled = stats.requestsFulfilled + 1
          /\ (pc' # "delay") => stats' = stats]_vars

\* a transaction was sent for the request, submitFulfillment has returned a
\* failure, and the cycle has gone on with the record kept and no error counted
C33_Witness ==
    /\ sentHere
    /\ sent = 1
    /\ pc \in {"process", "sleep"}
    /\ Has(processedRequests, Tracked)
    /\ stats = [requestsProcessed |-> 1, requestsFulfilled |-> 0, errors |-> 0]
    /\ ledger[Tracked].status = Pending

-----------------------------------------------------------------------------
(* C34 *)

\* C34: the blockhash and the lastValidBlockHeight given to the confirmation
\* of a transaction are those of one getLatestBlockhash answer, the one whose
\* blockhash the transaction was signed with.
C34_ConfirmationUsesSignedBlockhashResponse ==
    (pc = "confirm") =>
        \E s \in 1..MaxSlot :
            /\ GetLatestBlockhash(s).blockhash = txn.recentBlockhash
            /\ GetLatestBlockhash(s).blockhash = txn.blockhash
            /\ GetLatestBlockhash(s).lastValidBlockHeight = txn.lastValidBlockHeight

-----------------------------------------------------------------------------
(* C38 *)

\* C38: whatever the sequence of startMonitoring and stopMonitoring calls, at
\* most one program-account-change listener of the monitor is registered at a
\* time, and none is registered while the monitor is stopped.
C38_AtMostOneListener ==
    /\ monitor.listeners <= 1
    /\ ~monitor.isMonitoring => monitor.listeners = 0

-----------------------------------------------------------------------------
(* C35 *)

\* C35: in the UI demo, a request that was cancelled during its wait never
\* changes the status again: the step in which its requestRandomness call
\* ends leaves the status as it was.
C35_CancelledRequestLeavesStatus ==
    [][\A r \in DemoRequests :
          (demo.reqs[r].cancelled /\ demo.reqs[r].pc # "done" /\ demo'.reqs[r].pc = "done")
              => demo'.status = demo.status]_vars

-----------------------------------------------------------------------------
(* C36 *)

\* C36: in the UI demo at most one requestRandomness call is inside the loop
\* of waitForFulfillment at a time, and the loop of a cancelled request
\* begins no further iteration: its timer is followed by its return.
C36_OnePollingLoop ==
    [][/\ Cardinality({ r \in DemoRequests : demo'.reqs[r].pc \in DemoLoopStates }) <= 1
       /\ \A r \in DemoRequests :
            (demo.reqs[r].cancelled /\ demo.reqs[r].pc = "sleeping")
                => demo'.reqs[r].pc \in {"sleeping", "done"}]_vars

-----------------------------------------------------------------------------
(* C37 *)

\* the loop of the call r is at the end of a sleep and begins no further sleep
DemoIterationBegins(r) == demo.reqs[r].pc = "sleeping" /\ demo'.reqs[r].pc # "sleeping"

\* C37: in the UI demo waitForFulfillment terminates when every account read
\* returns or throws.  An iteration begins with the return of null exactly
\* when the abort ref is set or at least 60000 ms have passed since the start,
\* and with the read of the result account otherwise; a read that throws is
\* followed by the sleep; the loop ends with a hex result only on a result
\* account with a non-empty vector and at least 76 bytes, or on a request
\* account whose status byte is 1 and a result account of at least 76 bytes.
C37_WaitForFulfillmentTerminates ==
    /\ \A r \in DemoRequests :
         (demo.reqs[r].pc \in DemoLoopStates) ~> (demo.reqs[r].pc = "done")
    /\ [][\A r \in DemoRequests :
            /\ DemoIterationBegins(r) =>
                 IF demo.abort \/ demo.time - demo.reqs[r].startTime >= 60000
                 THEN demo'.reqs[r].pc = "done" /\ demo'.reqs[r].ret = "null"
                 ELSE demo'.reqs[r].pc = "readResult"
            /\ (demo.reqs[r].pc \in {"readResult", "readRequest", "readResult2"}
                  /\ demo'.reqs[r].pc = "done") =>
                 /\ demo'.reqs[r].ret = "hex"
                 /\ \/ /\ demo'.reqs[r].resultRead.vecLen > 0
                       /\ demo'.reqs[r].resultRead.len >= 76
                    \/ /\ demo'.reqs[r].requestRead.status = 1
                       /\ demo'.reqs[r].requestRead.len > 116 + demo'.reqs[r].requestRead.cbLen
                       /\ demo'.reqs[r].result2Read.len >= 76
            /\ (demo.reqs[r].pc \in DemoLoopStates /\ demo'.reqs[r].ret = "null") =>
                 DemoIterationBegins(r)]_vars

\* the wait of a request ended with the hex result of the second read of the
\* result account, and the wait of the next request, never cancelled, ended
\* with null when 60000 ms had passed
C37_Witness ==
    /\ demo.reqs[1].ret = "hex"
    /\ demo.reqs[1].resultRead.vecLen = 0
    /\ demo.reqs[1].requestRead.status = 1
    /\ demo.reqs[1].result2Read.len = 76
    /\ demo.reqs[2].ret = "null"
    /\ ~demo.reqs[2].cancelled
    /\ demo.time - demo.reqs[2].startTime = 60000
    /\ demo.status = "timeout"

=============================================================================
